---- MODULE Spec2Model ----
(***************************************************************************)
(* A model of middleman.py: the Distillation Matcher (distill), the        *)
(* conversion engine (convert) and the externally-driven session flow      *)
(* (start / link) with its session registry.                               *)
(*                                                                         *)
(* Conventions.  A Python str is a sequence of one-character strings, so   *)
(* that lower(), strip(), lstrip() and "in" are computed and not assumed.  *)
(* A selector directive is a sequence of whitespace-separated words.       *)
(* Optional values are sequences of length 0 (None) or 1 (a value).        *)
(***************************************************************************)
EXTENDS Integers, Sequences, FiniteSets, TLC

\* ------------------------------------------------------------------ bounds

\* The largest number of specification files load_patterns() returns in the
\* matcher specification.
MaxSpecs == 2

\* The largest number of sessions /start creates.
MaxSessions == 1

\* The largest number of /link requests in progress at the same time.
MaxCalls == 2

\* ------------------------------------------------------------ Python values

None == <<>>
Some(v) == <<v>>

\* The indices 1..Len(s) as a sequence.
Indices(s) == [i \in 1..Len(s) |-> i]

\* ------------------------------------------------------------------ strings

S_localhost == <<"l", "o", "c", "a", "l", "h", "o", "s", "t">>
S_127_0_0_1 == <<"1", "2", "7", ".", "0", ".", "0", ".", "1">>
S_minus1 == <<"-", "1">>

\* str.lower() on one character, for the letters the model uses.
LowerChar(c) ==
    CASE c = "A" -> "a"
      [] c = "B" -> "b"
      [] c = "C" -> "c"
      [] c = "H" -> "h"
      [] c = "L" -> "l"
      [] c = "O" -> "o"
      [] c = "S" -> "s"
      [] c = "T" -> "t"
      [] c = "X" -> "x"
      [] OTHER -> c

\* str.lower()
Lower(s) == [i \in 1..Len(s) |-> LowerChar(s[i])]

\* sub in s
Contains(sub, s) ==
    \E i \in 0..(Len(s) - Len(sub)) : SubSeq(s, i + 1, i + Len(sub)) = sub

RECURSIVE LStripChars(_, _)
\* str.lstrip(chars)
LStripChars(s, chars) ==
    IF s # <<>> /\ Head(s) \in chars THEN LStripChars(Tail(s), chars) ELSE s

RECURSIVE RStripChars(_, _)
\* str.rstrip(chars)
RStripChars(s, chars) ==
    IF s # <<>> /\ s[Len(s)] \in chars
    THEN RStripChars(SubSeq(s, 1, Len(s) - 1), chars)
    ELSE s

Whitespace == {" "}

\* str.strip()
Strip(s) == RStripChars(LStripChars(s, Whitespace), Whitespace)

DigitChars == <<"0", "1", "2", "3", "4", "5", "6", "7", "8", "9">>

IsDigit(c) == \E d \in 1..10 : DigitChars[d] = c

DigitValue(c) == (CHOOSE d \in 1..10 : DigitChars[d] = c) - 1

RECURSIVE DigitsValue(_)
DigitsValue(s) ==
    IF s = <<>> THEN 0
    ELSE 10 * DigitsValue(SubSeq(s, 1, Len(s) - 1)) + DigitValue(s[Len(s)])

\* The digits of an int() literal: surrounding whitespace and one sign removed.
IntBody(s) ==
    LET t == Strip(s)
    IN  IF t # <<>> /\ Head(t) \in {"+", "-"} THEN Tail(t) ELSE t

\* int(s) does not raise ValueError
IsIntLiteral(s) ==
    LET b == IntBody(s)
    IN  b # <<>> /\ \A i \in 1..Len(b) : IsDigit(b[i])

\* int(s), for a literal
IntValue(s) ==
    LET t == Strip(s)
    IN  IF Head(t) = "-" THEN 0 - DigitsValue(IntBody(s)) ELSE DigitsValue(IntBody(s))

\* ------------------------------------------------- selector directive parser

\* The first words the pattern iframe(?:[^\s]*\[[^\]]+\]|[^\s]+) matches: "iframe"
\* followed by at least one more non-space character.  The bare word "iframe"
\* is not one of them.
FrameTokens == {"iframe#f", "iframe[name=x]"}

\* get_selector: (selector, frame_selector)
get_selector(input_selector) ==
    IF Len(input_selector) >= 2 /\ input_selector[1] \in FrameTokens
    THEN <<Tail(input_selector), Some(input_selector[1])>>
    ELSE <<input_selector, None>>

\* ---------------------------------------------------------------- live page

\* A live page maps (frame, selector) to the elements the selector matches, in
\* document order; each has a visibility, a text content and an inner markup.
LiveKey(frame, selector) == <<frame, selector>>

LiveElements(page, frame, selector) ==
    IF LiveKey(frame, selector) \in DOMAIN page
    THEN page[LiveKey(frame, selector)]
    ELSE <<>>

\* locate: the first visible element of the locator, or None.  The handle is
\* the locator's nth() position.
locate(page, frame, selector) ==
    LET els == LiveElements(page, frame, selector)
        vis == {i \in 1..Len(els) : els[i].visible}
    IN  IF vis = {} THEN None
        ELSE LET n == CHOOSE i \in vis : \A j \in vis : i <= j
             IN  Some([frame |-> frame, selector |-> selector, nth |-> n,
                       text |-> els[n].text, html |-> els[n].html])

\* ------------------------------------------------------------ specifications

\* A node of markup: an element with a class, a text, the value of its href
\* attribute (None without one) and child elements, or a text node (class
\* "#text").
Node(cls, text, href, kids) == [cls |-> cls, text |-> text, href |-> href, kids |-> kids]
TextNode(text) == Node("#text", text, None, <<>>)

\* target.string = text
StringChildren(text) == IF text = <<>> THEN <<>> ELSE <<TextNode(text)>>

\* An element of a specification document.  parent is the index of the
\* enclosing element of the list (0: none); attached says the element is still
\* part of the document tree.
Element(tag, match, html, optional, parent) ==
    [tag |-> tag, match |-> match, html |-> html, optional |-> optional,
     parent |-> parent, attached |-> TRUE, content |-> <<>>,
     type |-> None, name |-> None, id |-> None,
     autoclick |-> FALSE, stop |-> FALSE, value |-> None, checked |-> FALSE]

\* What an element cut out of the tree leaves behind in the list.
Detached == [Element("", None, None, FALSE, 0) EXCEPT !.attached = FALSE]

RECURSIVE IsDescendant(_, _, _)
IsDescendant(elems, j, i) ==
    /\ elems[j].parent # 0
    /\ \/ elems[j].parent = i
       \/ IsDescendant(elems, elems[j].parent, i)

\* target.clear() followed by appending the new children: the old children
\* leave the tree.
ReplaceChildren(elems, i, children) ==
    [j \in 1..Len(elems) |->
        IF j = i THEN [elems[j] EXCEPT !.content = children]
        ELSE IF IsDescendant(elems, j, i) THEN [elems[j] EXCEPT !.attached = FALSE]
        ELSE elems[j]]

\* pattern.find_all(attrs={"gg-match": True}) + pattern.find_all(attrs={"gg-match-html": True})
Targets(elems) ==
    SelectSeq(Indices(elems), LAMBDA i : elems[i].attached /\ elems[i].match # None)
    \o SelectSeq(Indices(elems), LAMBDA i : elems[i].attached /\ elems[i].html # None)

\* str(html if html else target.get("gg-match"))
Directive(target) ==
    IF target.html # None /\ target.html[1] # <<>> THEN target.html[1]
    ELSE IF target.match # None THEN target.match[1]
    ELSE <<"None">>

\* MatchTarget without the "found = False" of a required target with no match.
MatchTargetKeepsFound(st, i, page) ==
    LET target == st.elems[i]
        html == IF target.html # None THEN target.html[1] ELSE <<>>
        parsed == get_selector(Directive(target))
        source == locate(page, parsed[2], parsed[1])
    IN  IF parsed[1] = <<>> THEN st
        ELSE IF source # None
        THEN [st EXCEPT
                !.elems = IF html # <<>>
                          THEN ReplaceChildren(@, i, source[1].html)
                          ELSE IF source[1].text # <<>>
                          THEN ReplaceChildren(@, i, StringChildren(Strip(source[1].text)))
                          ELSE @,
                !.matches = Append(@, [frame |-> source[1].frame,
                                       selector |-> source[1].selector,
                                       nth |-> source[1].nth])]
        ELSE st

\* The body of the loop over the targets of one specification.
MatchTarget(st, i, page) ==
    LET target == st.elems[i]
        html == IF target.html # None THEN target.html[1] ELSE <<>>
        parsed == get_selector(Directive(target))
        selector == parsed[1]
        frame_selector == parsed[2]
        source == locate(page, frame_selector, selector)
    IN  IF selector = <<>> THEN st
        ELSE IF source # None
        THEN [st EXCEPT
                !.elems = IF html # <<>>
                          THEN ReplaceChildren(@, i, source[1].html)
                          ELSE IF source[1].text # <<>>
                          THEN ReplaceChildren(@, i, StringChildren(Strip(source[1].text)))
                          ELSE @,
                !.matches = Append(@, [frame |-> source[1].frame,
                                       selector |-> source[1].selector,
                                       nth |-> source[1].nth])]
        ELSE IF target.optional THEN st
        ELSE [st EXCEPT !.found = FALSE]

RECURSIVE MatchTargets(_, _, _)
MatchTargets(st, targets, page) ==
    IF targets = <<>> THEN st
    ELSE MatchTargets(MatchTarget(st, Head(targets), page), Tail(targets), page)

\* Priority with 0 in place of -1 for an absent or unparsable attribute.
PriorityDefaultZero(pattern) ==
    LET text == LStripChars(pattern.priority[1], {"=", " "})
    IN  IF pattern.hasRoot /\ pattern.priority # None /\ IsIntLiteral(text)
        THEN IntValue(text) ELSE 0

\* int(str(gg_priority).lstrip("= ")), -1 on ValueError or without a root
Priority(pattern) ==
    LET gg_priority == IF pattern.hasRoot /\ pattern.priority # None
                       THEN pattern.priority[1] ELSE S_minus1
        text == LStripChars(gg_priority, {"=", " "})
    IN  IF IsIntLiteral(text) THEN IntValue(text) ELSE -1

Domain(pattern) == IF pattern.hasRoot THEN pattern.domain ELSE None

\* Skipped comparing the domain and the hostname as written, without lower().
SkippedCaseSensitive(hostname, pattern) ==
    LET domain == Domain(pattern)
        local == Contains(S_localhost, hostname) \/ Contains(S_127_0_0_1, hostname)
    IN  /\ domain # None /\ domain[1] # <<>>
        /\ hostname # <<>>
        /\ ~local
        /\ ~Contains(domain[1], hostname)

\* The domain filter of distill: the specification is skipped.
Skipped(hostname, pattern) ==
    LET domain == Domain(pattern)
        local == Contains(S_localhost, hostname) \/ Contains(S_127_0_0_1, hostname)
    IN  /\ domain # None /\ domain[1] # <<>>
        /\ hostname # <<>>
        /\ ~local
        /\ ~Contains(Lower(domain[1]), Lower(hostname))

\* str(pattern): the document as its attributes and the elements still in the
\* tree, with their content.
Serialize(pattern) ==
    [hasRoot |-> pattern.hasRoot, priority |-> pattern.priority,
     domain |-> pattern.domain, payload |-> pattern.payload,
     elems |-> [i \in 1..Len(pattern.elems) |->
                  IF pattern.elems[i].attached THEN pattern.elems[i] ELSE Detached]]

\* DistillEntry without the "len(matches) > 0" of the test.
DistillEntryFoundOnly(item, after, st) ==
    IF st.found
    THEN Some([name |-> item.name,
               priority |-> Priority(item.pattern),
               distilled |-> Serialize(after),
               matches |-> st.matches])
    ELSE None

\* The test that ends the loop body of distill: the entry the specification
\* adds to result, if any.
DistillEntry(item, after, st) ==
    IF st.found /\ Len(st.matches) > 0
    THEN Some([name |-> item.name,
               priority |-> Priority(item.pattern),
               distilled |-> Serialize(after),
               matches |-> st.matches])
    ELSE None

\* One specification of the loop of distill: the specification as the pass
\* leaves it, whether "Checking" was printed for it, and its entry, if any.
DistillOne(hostname, page, item) ==
    IF Skipped(hostname, item.pattern)
    THEN [item |-> item, checked |-> FALSE, entry |-> None]
    ELSE LET st == MatchTargets([elems |-> item.pattern.elems, found |-> TRUE,
                                 matches |-> <<>>],
                                Targets(item.pattern.elems), page)
             after == [item.pattern EXCEPT
                         !.elems = [i \in 1..Len(st.elems) |->
                                      IF st.elems[i].attached THEN st.elems[i]
                                      ELSE Detached]]
         IN  [item |-> [item EXCEPT !.pattern = after],
              checked |-> TRUE,
              entry |-> DistillEntry(item, after, st)]

RECURSIVE InsertBeforeEqual(_, _)
\* InsertByPriority placing x before the entries of its own priority.
InsertBeforeEqual(sorted, x) ==
    IF sorted = <<>> THEN <<x>>
    ELSE IF x.priority <= Head(sorted).priority THEN <<x>> \o sorted
    ELSE <<Head(sorted)>> \o InsertBeforeEqual(Tail(sorted), x)

RECURSIVE InsertByPriority(_, _)
\* One step of the stable sort: x goes after the entries of its own priority.
InsertByPriority(sorted, x) ==
    IF sorted = <<>> THEN <<x>>
    ELSE IF x.priority < Head(sorted).priority THEN <<x>> \o sorted
    ELSE <<Head(sorted)>> \o InsertByPriority(Tail(sorted), x)

RECURSIVE SortedByPriority(_)
\* sorted(result, key=lambda x: x["priority"]): a stable sort
SortedByPriority(result) ==
    IF result = <<>> THEN <<>>
    ELSE InsertByPriority(SortedByPriority(SubSeq(result, 1, Len(result) - 1)),
                          result[Len(result)])

RECURSIVE Concat(_)
Concat(seqs) == IF seqs = <<>> THEN <<>> ELSE Head(seqs) \o Concat(Tail(seqs))

\* distill: the specifications as the pass leaves them, and the Match or None.
distill(hostname, page, patterns) ==
    LET each == [i \in 1..Len(patterns) |-> DistillOne(hostname, page, patterns[i])]
        result == SortedByPriority(Concat([i \in 1..Len(patterns) |-> each[i].entry]))
    IN  [patterns |-> [i \in 1..Len(patterns) |-> each[i].item],
         checked |-> [i \in 1..Len(patterns) |-> each[i].checked],
         match |-> IF Len(result) = 0 THEN None ELSE Some(result[1])]

\* --------------------------------------------- termination and conversion

\* parse(distilled): the document the string serializes.
parse(distilled) == distilled

\* The elements of a document that are in its tree, in document order.
Attached(document) ==
    SelectSeq(Indices(document.elems), LAMBDA i : document.elems[i].attached)

\* terminate that finds no stop element.
terminateNever(document) == FALSE

\* terminate: the document has an element with the gg-stop attribute.
terminate(document) ==
    \E i \in 1..Len(document.elems) :
        document.elems[i].attached /\ document.elems[i].stop

RECURSIVE TextOf(_)
\* get_text(strip=True): the stripped strings of the node, joined.
TextOf(node) ==
    Strip(node.text) \o Concat([k \in 1..Len(node.kids) |-> TextOf(node.kids[k])])

\* extract_value
extract_value(item, attribute) ==
    IF attribute # None
    THEN IF attribute[1] = "href" /\ item.href # None THEN Strip(item.href[1]) ELSE <<>>
    ELSE TextOf(item)

\* The selectors the CSS engine rejects with an error.
InvalidSelectors == {"", "!"}

\* tag.select(selector), over the children of a node
SelectKids(node, selector) == SelectSeq(node.kids, LAMBDA k : k.cls = selector)

\* document.select(selector): the nodes of that class, in document order.
SelectNodes(document, selector) ==
    Concat([n \in 1..Len(Attached(document)) |->
        LET content == document.elems[Attached(document)[n]].content
        IN  Concat([k \in 1..Len(content) |->
                (IF content[k].cls = selector THEN <<content[k]>> ELSE <<>>)
                \o SelectKids(content[k], selector)])])

\* kv[name] = value
SetKey(kv, name, value) ==
    IF \E k \in 1..Len(kv) : kv[k].name = name
    THEN [k \in 1..Len(kv) |-> IF kv[k].name = name THEN [kv[k] EXCEPT !.value = value] ELSE kv[k]]
    ELSE Append(kv, [name |-> name, value |-> value])

\* The value of a column: a str, or a list of str.
Scalar(text) == [list |-> FALSE, items |-> <<text>>]
List(items) == [list |-> TRUE, items |-> items]

\* ConvertColumn with the test of the scalar branch, "if item:", in the list
\* branch too.
ConvertColumnOmitsEmptyList(kv, el, col) ==
    IF col.name = None \/ col.selector = None THEN kv
    ELSE LET items == SelectKids(el, col.selector[1])
         IN  IF items = <<>> THEN kv
             ELSE IF col.kind = Some("list")
             THEN SetKey(kv, col.name[1],
                         List([k \in 1..Len(items) |-> extract_value(items[k], col.attribute)]))
             ELSE SetKey(kv, col.name[1], Scalar(extract_value(items[1], col.attribute)))

\* The body of the loop over the columns, for one row.
ConvertColumn(kv, el, col) ==
    IF col.name = None \/ col.selector = None THEN kv
    ELSE IF col.kind = Some("list")
    THEN LET items == SelectKids(el, col.selector[1])
         IN  SetKey(kv, col.name[1],
                    List([k \in 1..Len(items) |-> extract_value(items[k], col.attribute)]))
    ELSE LET items == SelectKids(el, col.selector[1])
         IN  IF items # <<>>
             THEN SetKey(kv, col.name[1], Scalar(extract_value(items[1], col.attribute)))
             ELSE kv

RECURSIVE ConvertColumns(_, _, _)
ConvertColumns(kv, el, columns) ==
    IF columns = <<>> THEN kv
    ELSE ConvertColumns(ConvertColumn(kv, el, Head(columns)), el, Tail(columns))

\* The conversion raises: the payload is no JSON object, or a selector that is
\* evaluated is rejected.
ConvertRaises(document, converter) ==
    \/ ~converter.wellFormed
    \/ converter.rows \in InvalidSelectors
    \/ /\ SelectNodes(document, converter.rows) # <<>>
       /\ \E c \in 1..Len(converter.columns) :
             /\ converter.columns[c].name # None
             /\ converter.columns[c].selector # None
             /\ converter.columns[c].selector[1] \in InvalidSelectors

\* convert without the test "if len(kv.keys()) > 0".
convertKeepsEmptyRows(document) ==
    IF document.payload = None THEN None
    ELSE LET converter == document.payload[1]
         IN  IF ConvertRaises(document, converter) THEN None
             ELSE LET rows == SelectNodes(document, converter.rows)
                  IN  Some([r \in 1..Len(rows) |->
                              ConvertColumns(<<>>, rows[r], converter.columns)])

\* convert: None without a payload or after an error, else the records of the
\* rows that gave at least one column.
convert(document) ==
    IF document.payload = None THEN None
    ELSE LET converter == document.payload[1]
         IN  IF ConvertRaises(document, converter) THEN None
             ELSE LET rows == SelectNodes(document, converter.rows)
                      kvs == [r \in 1..Len(rows) |->
                                ConvertColumns(<<>>, rows[r], converter.columns)]
                  IN  Some(SelectSeq(kvs, LAMBDA kv : Len(kv) > 0))

\* if converted:
Truthy(converted) == converted # None /\ Len(converted[1]) > 0

\* ------------------------------------------------------ the rounds of link

TICK == 1
TIMEOUT == 15

\* max = TIMEOUT // TICK
MaxIterations == TIMEOUT \div TICK

\* fields.get(name)
FieldsGet(fields, name) ==
    LET hits == SelectSeq(fields, LAMBDA f : f.name = name)
    IN  IF hits = <<>> THEN None ELSE Some(hits[1].value)

\* del fields[name]
FieldsDel(fields, name) == SelectSeq(fields, LAMBDA f : f.name # name)

\* value and len(str(value)) > 0
Given(value) == value # None /\ value[1] # ""

\* if name:
HasName(element) == element.name # None /\ element.name[1] # ""

\* str(element.get("gg-match"))
MatchAttribute(element) ==
    IF element.match # None THEN element.match[1] ELSE <<"None">>

PageOp(op, parsed) == [op |-> op, frame |-> parsed[2], selector |-> parsed[1]]

\* document.find("input", {"type": "radio", "id": str(value)})
FindRadio(document, id) ==
    LET hits == SelectSeq(Attached(document), LAMBDA j :
                    /\ document.elems[j].tag = "input"
                    /\ document.elems[j].type = Some("radio")
                    /\ document.elems[j].id = Some(id))
    IN  IF hits = <<>> THEN None ELSE Some(hits[1])

\* The body of the loop of link over the inputs of the document.
FillInput(st, i) ==
    LET input == st.document.elems[i]
        parsed == get_selector(MatchAttribute(input))
    IN  IF parsed[1] = <<>> THEN st
        ELSE IF input.type = Some("checkbox")
        THEN IF ~HasName(input) THEN st
             ELSE [st EXCEPT
                     !.names = Append(@, input.name[1]),
                     !.ops = IF Given(FieldsGet(st.fields, input.name[1]))
                             THEN Append(@, PageOp("check", parsed)) ELSE @]
        ELSE IF input.type = Some("radio")
        THEN LET value == IF HasName(input) THEN FieldsGet(st.fields, input.name[1]) ELSE None
                 radio == IF Given(value) THEN FindRadio(st.document, value[1]) ELSE None
             IN  IF radio = None THEN st
                 ELSE [st EXCEPT
                         !.document.elems[radio[1]].checked = TRUE,
                         !.touched = TRUE,
                         !.names = Append(@, IF input.id # None /\ input.id[1] # ""
                                             THEN input.id[1] ELSE "radio"),
                         !.ops = Append(@, PageOp("check",
                                    get_selector(MatchAttribute(st.document.elems[radio[1]]))))]
        ELSE IF HasName(input)
        THEN LET value == FieldsGet(st.fields, input.name[1])
             IN  IF Given(value)
                 THEN [st EXCEPT
                         !.names = Append(@, input.name[1]),
                         !.document.elems[i].value = value,
                         !.touched = TRUE,
                         !.ops = Append(@, PageOp("fill", parsed)),
                         !.fields = FieldsDel(@, input.name[1])]
                 ELSE st
        ELSE st

RECURSIVE FillInputs(_, _)
FillInputs(st, inputs) ==
    IF inputs = <<>> THEN st ELSE FillInputs(FillInput(st, Head(inputs)), Tail(inputs))

\* document.find_all("input")
Inputs(document) ==
    SelectSeq(Attached(document), LAMBDA i : document.elems[i].tag = "input")

\* The loop of link over the inputs: the document and the form data as it
\* leaves them, the names it resolved and the page actions it made.
FillFields(document, fields) ==
    FillInputs([document |-> document, fields |-> fields, names |-> <<>>,
                ops |-> <<>>, touched |-> FALSE],
               Inputs(document))

\* is_form_filled or (has_click_buttons and has_no_form_fields)
ShouldClick(document, names) ==
    LET inputs == Inputs(document)
        is_form_filled == Len(names) > 0 /\ Len(inputs) = Len(names)
        has_no_form_fields == Len(inputs) = 0
        has_click_buttons == \E i \in 1..Len(document.elems) :
                                document.elems[i].attached /\ document.elems[i].autoclick
    IN  is_form_filled \/ (has_click_buttons /\ has_no_form_fields)

\* autoclick: the clicks it asks for.
\* [gg-autoclick]:not(button), button[gg-autoclick], button[type="submit"]
ClickOps(document) ==
    LET buttons == SelectSeq(Attached(document), LAMBDA i :
                       \/ document.elems[i].autoclick
                       \/ /\ document.elems[i].tag = "button"
                          /\ document.elems[i].type = Some("submit"))
        parsed == [b \in 1..Len(buttons) |->
                     get_selector(MatchAttribute(document.elems[buttons[b]]))]
    IN  [b \in 1..Len(SelectSeq(parsed, LAMBDA q : q[1] # <<>>)) |->
            PageOp("click", SelectSeq(parsed, LAMBDA q : q[1] # <<>>)[b])]

\* page.fill and page.check wait for the element and raise when it does not
\* show up.
OpFails(page, ops) ==
    \E k \in 1..Len(ops) : locate(page, ops[k].frame, ops[k].selector) = None

\* ------------------------------------------------------------- autofill

\* str.upper() on one character, for the letters the model uses.
UpperChar(c) ==
    CASE c = "a" -> "A"
      [] c = "b" -> "B"
      [] c = "c" -> "C"
      [] OTHER -> c

\* str.upper() on a domain
Upper(s) == [i \in 1..Len(s) |-> UpperChar(s[i])]

\* str.upper() on the names and the types of the inputs the model uses.
UpperWord(w) ==
    CASE w = "user" -> "USER"
      [] w = "User" -> "USER"
      [] w = "email" -> "EMAIL"
      [] w = "tel" -> "TEL"
      [] w = "text" -> "TEXT"
      [] w = "password" -> "PASSWORD"
      [] OTHER -> w

\* key = str(source).upper(), with source = f"{domain}_{field}" if domain else
\* field: the part before the underscore (None without one) and the part after.
EnvKey(document, field) ==
    [prefix |-> IF document.hasRoot /\ document.domain # None /\ document.domain[1] # <<>>
                THEN Some(Upper(document.domain[1])) ELSE None,
     field |-> UpperWord(field)]

\* os.getenv that finds no variable at all.
GetenvNothing(environ, key) == None

\* os.getenv(key)
Getenv(environ, key) ==
    IF \E e \in environ : e.key = key
    THEN Some((CHOOSE e \in environ : e.key = key).value)
    ELSE None

\* "name in processed" that never finds the name.
NeverProcessed(processed, name) == FALSE

\* name in processed
InProcessed(processed, name) == \E k \in 1..Len(processed) : processed[k] = name

\* document.find_all("input", {"type": True})
TypedInputs(document) ==
    SelectSeq(Attached(document), LAMBDA i :
        document.elems[i].tag = "input" /\ document.elems[i].type # None)

\* A call autofill makes: a prompt on the terminal ("ask") or an action on the
\* page ("fill", "check"), made while it handled the input at index field.
AutofillOp(op, field, parsed, value) ==
    [op |-> op, field |-> field, frame |-> parsed[2], selector |-> parsed[1],
     value |-> value]

\* The action on the page raises: the element never shows up.
PageRaises(page, parsed) == locate(page, parsed[2], parsed[1]) = None

\* The radio buttons of the group, as the loop over radio_buttons lists them.
Choices(document, name) ==
    SelectSeq(Attached(document), LAMBDA j :
        /\ document.elems[j].tag = "input"
        /\ document.elems[j].type = Some("radio")
        /\ document.elems[j].name = Some(name))

\* document.find("input", {"type": "radio", "id": id}); with id None it finds
\* the first radio button that has no id.
FindRadioById(document, id) ==
    LET hits == SelectSeq(Attached(document), LAMBDA j :
                    /\ document.elems[j].tag = "input"
                    /\ document.elems[j].type = Some("radio")
                    /\ document.elems[j].id = id)
    IN  IF hits = <<>> THEN None ELSE Some(hits[1])

RECURSIVE AskChoice(_, _, _)
\* The loop "while choice < 1 or choice > len(choices)": the prompts shown and
\* the choice made, 0 when the answers end before a valid one (ask then waits
\* for the user).
AskChoice(answers, count, asked) ==
    IF answers = <<>> THEN [choice |-> 0, asked |-> asked + 1, rest |-> <<>>]
    ELSE LET choice == IF IsIntLiteral(Head(answers)) THEN IntValue(Head(answers)) ELSE 0
         IN  IF choice < 1 \/ choice > count
             THEN AskChoice(Tail(answers), count, asked + 1)
             ELSE [choice |-> choice, asked |-> asked + 1, rest |-> Tail(answers)]

RECURSIVE Asks(_, _)
Asks(field, n) ==
    IF n = 0 THEN <<>>
    ELSE <<AutofillOp("ask", field, <<<<>>, None>>, None)>> \o Asks(field, n - 1)

\* The body of the loop of autofill over the inputs, for the input at index i.
\* st.outcome is "" while autofill runs, "raised" after an exception and
\* "waiting" when a prompt got no answer.
AutofillInput(st, i, page, environ, typed) ==
    LET element == st.document.elems[i]
        parsed == get_selector(IF element.match # None THEN element.match[1] ELSE <<>>)
    IN  IF st.outcome # "" THEN st
        ELSE IF parsed[1] = <<>> THEN st
        ELSE IF element.type[1] \in {"email", "tel", "text", "password"}
        THEN LET field == IF HasName(element) THEN element.name[1] ELSE element.type[1]
                 value == Getenv(environ, EnvKey(st.document, field))
             IN  IF Given(value)
                 THEN IF PageRaises(page, parsed)
                      THEN [st EXCEPT !.ops = Append(@, AutofillOp("fill", i, parsed, value)),
                                      !.outcome = "raised"]
                      ELSE [st EXCEPT !.ops = Append(@, AutofillOp("fill", i, parsed, value)),
                                      !.document.elems[i].value = value]
                 ELSE IF PageRaises(page, parsed)
                      THEN [st EXCEPT !.ops = @ \o <<AutofillOp("ask", i, <<<<>>, None>>, None),
                                                     AutofillOp("fill", i, parsed, Some(typed))>>,
                                      !.outcome = "raised"]
                      ELSE [st EXCEPT !.ops = @ \o <<AutofillOp("ask", i, <<<<>>, None>>, None),
                                                     AutofillOp("fill", i, parsed, Some(typed))>>,
                                      !.document.elems[i].value = Some(typed)]
        ELSE IF element.type[1] = "radio"
        THEN IF ~HasName(element) THEN st
             ELSE IF InProcessed(st.processed, element.name[1]) THEN st
             ELSE LET choices == Choices(st.document, element.name[1])
                      asked == AskChoice(st.answers, Len(choices), 0)
                      prompted == [st EXCEPT !.processed = Append(@, element.name[1]),
                                             !.answers = asked.rest,
                                             !.ops = @ \o Asks(i, asked.asked)]
                  IN  IF asked.choice = 0 THEN [prompted EXCEPT !.outcome = "waiting"]
                      ELSE LET radio == FindRadioById(st.document,
                                            st.document.elems[choices[asked.choice]].id)
                               target == get_selector(MatchAttribute(st.document.elems[radio[1]]))
                           IN  IF radio = None THEN prompted
                               ELSE [prompted EXCEPT
                                       !.ops = Append(@, AutofillOp("check", i, target, None)),
                                       !.outcome = IF PageRaises(page, target) THEN "raised" ELSE @]
        ELSE IF element.type[1] = "checkbox"
        THEN IF element.checked
             THEN [st EXCEPT !.ops = Append(@, AutofillOp("check", i, parsed, None)),
                             !.outcome = IF PageRaises(page, parsed) THEN "raised" ELSE @]
             ELSE st
        ELSE st

RECURSIVE AutofillInputs(_, _, _, _, _)
AutofillInputs(st, inputs, page, environ, typed) ==
    IF inputs = <<>> THEN st
    ELSE AutofillInputs(AutofillInput(st, Head(inputs), page, environ, typed),
                        Tail(inputs), page, environ, typed)

\* autofill(page, distilled): the calls it makes, how it ends and, when it
\* returns, the document it returns.  typed is what the user types at a prompt
\* for a value, answers what the user types at the prompts for a choice.
autofill(page, distilled, environ, typed, answers) ==
    LET document == parse(distilled)
        st == AutofillInputs([document |-> document, processed |-> <<>>, ops |-> <<>>,
                              answers |-> answers, outcome |-> ""],
                             TypedInputs(document), page, environ, typed)
    IN  [ops |-> st.ops, outcome |-> st.outcome, document |-> st.document]

\* ------------------------------------------------------- the matcher's inputs

S_ab == <<"a", "b">>
S_Ab == <<"A", "b">>

\* Session hostnames: none, one that contains "ab" in upper case, one that
\* does not contain it, and the two loopback names distill recognises.
Hostnames ==
    {<<>>, <<"x", "A", "B">>, <<"b", ".", "c">>, S_localhost, S_127_0_0_1}

Sel_a == <<"#a">>
Sel_b == <<"#b">>
Sel_framed_a == <<"iframe#f", "#a">>

Live(visible, text, html) == [visible |-> visible, text |-> text, html |-> html]

Cell(cls, text, href) == Node(cls, text, href, <<>>)

\* A row of a listing: an element of class "row" with the given cells.
Row(text) == Node("row", <<>>, None, <<Cell("t", text, None)>>)

\* Live pages: nothing visible; #a visible as the second of two elements, with
\* text to strip; #a and #b visible; #b visible, and #a visible in a frame.
Pages ==
    {[k \in {LiveKey(None, Sel_a)} |-> <<Live(FALSE, <<"x">>, <<>>)>>],
     [k \in {LiveKey(None, Sel_a)} |->
        <<Live(FALSE, <<"y">>, <<>>), Live(TRUE, <<" ", "x", " ">>, <<>>)>>],
     [k \in {LiveKey(None, Sel_a), LiveKey(None, Sel_b)} |->
        IF k = LiveKey(None, Sel_a)
        THEN <<Live(TRUE, <<"y">>, <<>>)>>
        ELSE <<Live(TRUE, <<>>, <<Row(<<"x">>)>>)>>],
     [k \in {LiveKey(None, Sel_b), LiveKey(Some("iframe#f"), Sel_a)} |->
        IF k = LiveKey(None, Sel_b)
        THEN <<Live(TRUE, <<"x">>, <<Row(<<"x">>), Row(<<"y">>)>>)>>
        ELSE <<Live(TRUE, <<"x">>, <<>>)>>]}

Document(priority, domain, elems) ==
    [hasRoot |-> TRUE, priority |-> priority, domain |-> domain,
     payload |-> None, elems |-> elems]

\* The specification documents the libraries are built from.
SpecPool ==
    {\* no priority, no domain, a required and an optional target
     Document(None, None,
              <<Element("div", Some(Sel_a), None, FALSE, 0),
                Element("div", Some(Sel_b), None, TRUE, 0)>>),
     \* priority "= 1", domain "Ab", a required match target inside a required
     \* match-html target
     Document(Some(<<"=", " ", "1">>), Some(S_Ab),
              <<Element("div", None, Some(Sel_b), FALSE, 0),
                Element("span", Some(Sel_a), None, FALSE, 1)>>),
     \* a priority that is no integer, domain "ab", two optional targets
     Document(Some(<<"x">>), Some(S_ab),
              <<Element("div", Some(Sel_a), None, TRUE, 0),
                Element("div", Some(Sel_b), None, TRUE, 0)>>),
     \* priority 0, domain "c", a target in a frame and a target with an empty
     \* directive
     Document(Some(<<"0">>), Some(<<"c">>),
              <<Element("div", Some(Sel_framed_a), None, FALSE, 0),
                Element("div", Some(<<>>), None, FALSE, 0)>>),
     \* priority -5, no target
     Document(Some(<<"-", "5">>), None, <<>>)}

\* load_patterns: each file of the directory with the name it was found under
\* (here its position in the listing).
Libraries ==
    UNION {[1..n -> SpecPool] : n \in 1..MaxSpecs}

load_patterns(docs) == [i \in 1..Len(docs) |-> [name |-> i, pattern |-> docs[i]]]

\* ------------------------------------------------------ the server's inputs

Sel_email == <<"#email">>
Sel_go == <<"#go">>
Sel_ok == <<"#ok">>
Sel_list == <<"#list">>
Sel_keep == <<"#keep">>

\* A sign-in form: an e-mail input, a checkbox and a button to click once it
\* is filled.
FormDocument ==
    Document(None, None,
        <<[Element("input", Some(Sel_email), None, FALSE, 0)
              EXCEPT !.type = Some("email"), !.name = Some("email")],
          [Element("input", Some(Sel_keep), None, TRUE, 0)
              EXCEPT !.type = Some("checkbox"), !.name = Some("keep")],
          [Element("button", Some(Sel_go), None, FALSE, 0) EXCEPT !.autoclick = TRUE]>>)

\* A banner: no input, a button to click.
BannerDocument ==
    Document(Some(<<"-", "2">>), None,
        <<[Element("button", Some(Sel_ok), None, FALSE, 0) EXCEPT !.autoclick = TRUE]>>)

\* The page that ends the flow: a listing, the stop marker and a converter.
DoneDocument ==
    [Document(Some(<<"1">>), None,
        <<[Element("div", None, Some(Sel_list), FALSE, 0) EXCEPT !.stop = TRUE]>>)
     EXCEPT !.payload = Some([wellFormed |-> TRUE, rows |-> "row",
                              columns |-> <<[name |-> Some("title"), selector |-> Some("t"),
                                             attribute |-> None, kind |-> None]>>])]

\* The files of ./specs of the server.
ServerDocuments == <<FormDocument, BannerDocument, DoneDocument>>

\* What the script element of the last file may hold: nothing (no script
\* element); the converter of DoneDocument; text json.loads rejects or that is
\* no JSON object; a converter without "rows"; one whose rows selector the CSS
\* engine rejects; one with such a column selector.
TerminalPayloads ==
    {None,
     DoneDocument.payload,
     Some([DoneDocument.payload[1] EXCEPT !.wellFormed = FALSE]),
     Some([DoneDocument.payload[1] EXCEPT !.rows = ""]),
     Some([DoneDocument.payload[1] EXCEPT !.rows = "!"]),
     Some([DoneDocument.payload[1] EXCEPT !.columns[1].selector = Some("!")])}

\* The directories ./specs that differ in the converter of the last file.
TerminalLibraries ==
    {<<FormDocument, BannerDocument, [DoneDocument EXCEPT !.payload = payload]>> :
        payload \in TerminalPayloads}

BlankPage == [k \in {} |-> <<>>]

\* The live pages of a session: nothing the specifications know; the sign-in
\* form; the banner; the listing with a row; the listing without rows.
SessionPages ==
    {BlankPage,
     [k \in {LiveKey(None, Sel_email), LiveKey(None, Sel_go)} |->
        <<Live(TRUE, <<>>, <<>>)>>],
     [k \in {LiveKey(None, Sel_ok)} |-> <<Live(TRUE, <<>>, <<>>)>>],
     [k \in {LiveKey(None, Sel_list)} |-> <<Live(TRUE, <<"x">>, <<Row(<<"x">>)>>)>>],
     [k \in {LiveKey(None, Sel_list)} |-> <<Live(TRUE, <<>>, <<>>)>>]}

\* The form data of a /link request: none, or a value for the e-mail field.
FormData == {<<>>, <<[name |-> "email", value |-> "x"]>>}

\* urlparse(location).hostname of the locations /start is given.
ServerHostnames == {<<"b", ".", "c">>}

\* The location parameter of /start: the empty string, or a location with one
\* of these hostnames.
StartLocations ==
    {[empty |-> TRUE, hostname |-> <<>>]}
    \cup {[empty |-> FALSE, hostname |-> h] : h \in ServerHostnames}

\* ------------------------------------------------------------------- state

VARIABLES
    mHostname,    \* matcher: the session hostname
    mPage,        \* matcher: the live page
    mPatterns,    \* matcher: the loaded specifications, as the passes left them
    mLoaded,      \* matcher: the specifications as load_patterns gave them
    mBefore,      \* matcher: the specifications before the latest pass
    mChecked,     \* matcher: the specifications the latest pass printed "Checking" for
    mRanOn,       \* matcher: the page the latest pass ran against
    mMatch,       \* matcher: the result of the latest pass
    mPrev,        \* matcher: the result of the pass before it
    mRuns,        \* matcher: passes made, counted up to 2
    mStable,      \* matcher: the page did not change between the last two passes
    browsers,     \* server: the registry, a list of handles
    contexts,     \* server: per session id, its browsing context and live page
    calls,        \* server: the /link requests in progress, and how each ended
    started,      \* server: the status of the latest response of /start, 0 before
    specs,        \* the files of ./specs, as load_patterns finds them
    kPc,          \* click: "call" while it runs, then "returned" or "raised"
    kTimeout,     \* click: the timeout argument of the running call
    kAttempts,    \* click: the enumerations of the elements made so far
    kClicked,     \* click: an element was clicked
    kFailed,      \* click: in the latest attempt a click was tried and raised
    kRaised,      \* click: the class of the exception raised, "" when none
    cDocument,    \* convert: the snapshot given to convert
    cConverted,   \* convert: what convert returned
    cDone,        \* convert: convert has run
    aPc,          \* autofill: "call" while it runs, then "returned", "raised" or "waiting"
    aDocument,    \* autofill: the snapshot it is given
    aPage,        \* autofill: the live page
    aEnviron,     \* autofill: the environment variables of the process
    aTyped,       \* autofill: what the user types at a prompt for a value
    aAnswers,     \* autofill: what the user types at the prompts for a choice
    aOps,         \* autofill: the prompts and the page actions it made, in order
    aReturned,    \* autofill: the document it returned
    rPc,          \* run: "idle" when no run command was given, else where run_command is
    rHostname,    \* run: the hostname of the location
    rPatterns,    \* run: the loaded specifications, as the passes left them
    rIteration,   \* run: the iterations begun
    rContext,     \* run: the browsing context and its live page
    rMatched,     \* run: the snapshot of the latest matcher pass, None without a match
    rCurrent,     \* run: current["distilled"], None for the empty string
    rDocument,    \* run: the local distilled, parsed
    rTrace,       \* run: the functions called in the latest iteration, in order
    rRaised       \* run: an exception left the loop

mvars == <<mHostname, mPage, mPatterns, mLoaded, mBefore, mChecked, mRanOn, mMatch, mPrev, mRuns, mStable>>

svars == <<browsers, contexts, calls, started, specs>>

kvars == <<kPc, kTimeout, kAttempts, kClicked, kFailed, kRaised>>

cvars == <<cDocument, cConverted, cDone>>

avars == <<aPc, aDocument, aPage, aEnviron, aTyped, aAnswers, aOps, aReturned>>

rvars == <<rPc, rHostname, rPatterns, rIteration, rContext, rMatched, rCurrent, rDocument, rTrace, rRaised>>

uvars == <<kvars, cvars, avars, rvars>>

vars == <<mvars, svars, uvars>>

Calls == 1..MaxCalls

NoResponse == [status |-> 0, kind |-> ""]

\* A request slot with no request in it.
IdleCall ==
    [pc |-> "idle", id |-> 0, hostname |-> <<>>, iteration |-> 0,
     patterns |-> <<>>, current |-> None, matched |-> None,
     fields |-> <<>>, document |-> None, converted |-> None, response |-> NoResponse]

\* No session and no request yet.
NoRequest ==
    /\ browsers = <<>>
    /\ contexts = <<>>
    /\ calls = [c \in Calls |-> IdleCall]
    /\ started = 0

\* The server before any request, with its three specification files.
ServerIdle ==
    /\ NoRequest
    /\ specs = ServerDocuments

\* The matcher's variables, where they play no part.
MatcherIdle ==
    /\ mHostname = <<>>
    /\ mPage = BlankPage
    /\ mPatterns = <<>>
    /\ mLoaded = <<>>
    /\ mBefore = <<>>
    /\ mChecked = <<>>
    /\ mRanOn = BlankPage
    /\ mMatch = None
    /\ mPrev = None
    /\ mRuns = 0
    /\ mStable = FALSE

\* autofill, where it plays no part.
AutofillIdle ==
    /\ aPc = "idle"
    /\ aDocument = Document(None, None, <<>>)
    /\ aPage = BlankPage
    /\ aEnviron = {}
    /\ aTyped = ""
    /\ aAnswers = <<>>
    /\ aOps = <<>>
    /\ aReturned = None

\* The variables of run_command but rPc, before the command starts.
RunLocals ==
    /\ rHostname = <<>>
    /\ rPatterns = <<>>
    /\ rIteration = 0
    /\ rContext = [open |-> FALSE, closes |-> 0, page |-> BlankPage]
    /\ rMatched = None
    /\ rCurrent = None
    /\ rDocument = None
    /\ rTrace = <<>>
    /\ rRaised = FALSE

\* run_command, where it plays no part.
RunIdle == rPc = "idle" /\ RunLocals

\* click, convert, autofill and run_command, where they play no part.
UnitsIdle ==
    /\ AutofillIdle
    /\ RunIdle
    /\ kPc = "idle"
    /\ kTimeout = 0
    /\ kAttempts = 0
    /\ kClicked = FALSE
    /\ kFailed = FALSE
    /\ kRaised = ""
    /\ cDocument = Document(None, None, <<>>)
    /\ cConverted = None
    /\ cDone = FALSE

\* --------------------------------------------------- the matcher, on its own

MInit ==
    /\ mHostname \in Hostnames
    /\ mPage \in Pages
    /\ \E docs \in Libraries : mPatterns = load_patterns(docs)
    /\ mLoaded = mPatterns
    /\ mBefore = mPatterns
    /\ mChecked = [i \in 1..Len(mPatterns) |-> FALSE]
    /\ mRanOn = mPage
    /\ mMatch = None
    /\ mPrev = None
    /\ mRuns = 0
    /\ mStable = FALSE
    /\ ServerIdle
    /\ UnitsIdle

\* One pass of distill over the live page.
MDistill ==
    LET r == distill(mHostname, mPage, mPatterns)
    IN  /\ mPatterns' = r.patterns
        /\ mBefore' = mPatterns
        /\ mChecked' = r.checked
        /\ mRanOn' = mPage
        /\ mMatch' = r.match
        /\ mPrev' = mMatch
        /\ mRuns' = IF mRuns < 2 THEN mRuns + 1 ELSE 2
        /\ mStable' = (mRuns >= 1 /\ mRanOn = mPage)
        /\ UNCHANGED <<mHostname, mPage, mLoaded, svars, uvars>>

\* The live page changes between two passes.
MPageChange ==
    /\ mRuns >= 1
    /\ \E p \in Pages \ {mPage} : mPage' = p
    /\ UNCHANGED <<mHostname, mPatterns, mLoaded, mBefore, mChecked, mRanOn, mMatch, mPrev, mRuns, mStable, svars, uvars>>

MNext == MDistill \/ MPageChange

SpecDistill == MInit /\ [][MNext]_vars

\* ------------------------------------------------------------- the server

Init == MatcherIdle /\ ServerIdle /\ UnitsIdle

\* The handle of the registry with this id: next((b for b in browsers if ...), None)
Lookup(id) ==
    LET hits == SelectSeq(browsers, LAMBDA b : b.id = id)
    IN  IF hits = <<>> THEN None ELSE Some(hits[1])

\* The request ends with this response; its locals are gone.
Respond(c, status, kind) ==
    calls' = [calls EXCEPT ![c] =
                [IdleCall EXCEPT !.pc = "done", !.id = calls[c].id,
                                 !.response = [status |-> status, kind |-> kind]]]

\* GET /start: an empty location is answered 400; else init() makes a context
\* with a fresh id, the handle joins the registry and the page goes to the
\* location.  The model takes requests to /start until MaxSessions contexts
\* were made.
Start ==
    /\ Len(contexts) < MaxSessions
    /\ \E location \in StartLocations :
          IF location.empty
          THEN /\ started' = 400
               /\ UNCHANGED <<mvars, uvars, specs, browsers, contexts, calls>>
          ELSE /\ \E p \in SessionPages :
                     /\ browsers' = Append(browsers, [id |-> Len(contexts) + 1,
                                                      hostname |-> location.hostname])
                     /\ contexts' = Append(contexts, [open |-> TRUE, closes |-> 0, page |-> p])
               /\ started' = 200
               /\ UNCHANGED <<mvars, uvars, specs, calls>>

\* The live page of an open context changes: a navigation, a script, the user.
PageChange ==
    /\ \E s \in 1..Len(contexts), p \in SessionPages :
          /\ contexts[s].open
          /\ p # contexts[s].page
          /\ contexts' = [contexts EXCEPT ![s].page = p]
    /\ UNCHANGED <<mvars, uvars, specs, started, browsers, calls>>

\* LinkBegin with the lookup after load_patterns: the specifications are
\* loaded for an unknown id too.
LinkBeginLoadsFirst(c) ==
    /\ calls[c].pc \in {"idle", "done"}
    /\ \A b \in 1..(c - 1) : calls[b].pc \notin {"idle", "done"}
    /\ \E id \in 1..MaxSessions, fields \in FormData :
          calls' = [calls EXCEPT ![c] =
                      IF Lookup(id) = None
                      THEN [IdleCall EXCEPT !.pc = "done", !.id = id,
                                            !.patterns = load_patterns(specs),
                                            !.response = [status |-> 404, kind |-> "error"]]
                      ELSE [IdleCall EXCEPT !.pc = "loop", !.id = id, !.fields = fields,
                                            !.hostname = Lookup(id)[1].hostname,
                                            !.patterns = load_patterns(specs)]]
    /\ UNCHANGED <<mvars, uvars, specs, started, browsers, contexts>>

\* POST /link/{id} arrives: an id the registry does not know is answered 404,
\* else the specifications are loaded and the loop starts.  A request takes
\* the first free slot.
LinkBegin(c) ==
    /\ calls[c].pc \in {"idle", "done"}
    /\ \A b \in 1..(c - 1) : calls[b].pc \notin {"idle", "done"}
    /\ \E id \in 1..MaxSessions, fields \in FormData :
          calls' = [calls EXCEPT ![c] =
                      IF Lookup(id) = None
                      THEN [IdleCall EXCEPT !.pc = "done", !.id = id,
                                            !.response = [status |-> 404, kind |-> "error"]]
                      ELSE [IdleCall EXCEPT !.pc = "loop", !.id = id, !.fields = fields,
                                            !.hostname = Lookup(id)[1].hostname,
                                            !.patterns = load_patterns(specs)]]
    /\ UNCHANGED <<mvars, uvars, specs, started, browsers, contexts>>

\* LinkTimeout not waiting for the end of the loop.
LinkTimeoutEarly(c) ==
    /\ calls[c].pc = "loop"
    /\ calls[c].iteration >= 1
    /\ Respond(c, 503, "error")
    /\ UNCHANGED <<mvars, uvars, specs, started, browsers, contexts>>

\* The loop ends without a return: HTTPException(503, "Timeout reached").
LinkTimeout(c) ==
    /\ calls[c].pc = "loop"
    /\ calls[c].iteration = MaxIterations
    /\ Respond(c, 503, "error")
    /\ UNCHANGED <<mvars, uvars, specs, started, browsers, contexts>>

\* AfterMatch with a convert that lets its errors out: the request ends with
\* a server error.
AfterMatchUncaught(call, r) ==
    LET looped == [call EXCEPT !.pc = "loop", !.patterns = r.patterns,
                               !.iteration = @ + 1,
                               !.matched = IF r.match = None THEN @
                                           ELSE Some(r.match[1].distilled)]
    IN  IF r.match = None THEN looped
        ELSE IF call.current = Some(r.match[1].distilled) THEN looped
        ELSE LET document == parse(r.match[1].distilled)
                 adopted == [looped EXCEPT !.current = Some(r.match[1].distilled),
                                           !.document = Some(document)]
             IN  IF terminate(document)
                 THEN IF document.payload # None /\ ConvertRaises(document, document.payload[1])
                      THEN [IdleCall EXCEPT !.pc = "done", !.id = call.id,
                                            !.response = [status |-> 500, kind |-> "error"]]
                      ELSE [adopted EXCEPT !.pc = "close", !.converted = convert(document)]
                 ELSE [adopted EXCEPT !.pc = "fill"]

\* What link does with the result of distill, up to the next page action.
AfterMatch(call, r) ==
    LET looped == [call EXCEPT !.pc = "loop", !.patterns = r.patterns,
                               !.iteration = @ + 1,
                               !.matched = IF r.match = None THEN @
                                           ELSE Some(r.match[1].distilled)]
    IN  IF r.match = None THEN looped
        ELSE IF call.current = Some(r.match[1].distilled) THEN looped
        ELSE LET document == parse(r.match[1].distilled)
                 adopted == [looped EXCEPT !.current = Some(r.match[1].distilled),
                                           !.document = Some(document)]
             IN  IF terminate(document)
                 THEN [adopted EXCEPT !.pc = "close", !.converted = convert(document)]
                 ELSE [adopted EXCEPT !.pc = "fill"]

\* One iteration of the loop up to its first page action: sleep(TICK), then
\* distill.  On a closed context the page queries of distill raise, and the
\* request ends with a server error.
LinkMatch(c) ==
    /\ calls[c].pc = "loop"
    /\ calls[c].iteration < MaxIterations
    /\ LET s == calls[c].id
       IN  IF ~contexts[s].open
           THEN Respond(c, 500, "error")
           ELSE calls' = [calls EXCEPT ![c] =
                    AfterMatch(@, distill(calls[c].hostname, contexts[s].page,
                                          calls[c].patterns))]
    /\ UNCHANGED <<mvars, uvars, specs, started, browsers, contexts>>

\* LinkRemove before the context is closed: the two statements swapped.
LinkRemoveFirst(c) ==
    /\ calls[c].pc = "close"
    /\ browsers' = SelectSeq(browsers, LAMBDA b : b.id # calls[c].id)
    /\ contexts' = [contexts EXCEPT ![calls[c].id] =
                       [open |-> FALSE, closes |-> @.closes + 1, page |-> BlankPage]]
    /\ calls' = [calls EXCEPT ![c].pc = "remove"]
    /\ UNCHANGED <<mvars, uvars, specs, started>>

\* await context.close()
LinkClose(c) ==
    /\ calls[c].pc = "close"
    /\ contexts' = [contexts EXCEPT ![calls[c].id] =
                       [open |-> FALSE, closes |-> @.closes + 1, page |-> BlankPage]]
    /\ calls' = [calls EXCEPT ![c].pc = "remove"]
    /\ UNCHANGED <<mvars, uvars, specs, started, browsers>>

\* browsers[:] = [b for b in browsers if b["id"] != id], and the return.
LinkRemove(c) ==
    /\ calls[c].pc = "remove"
    /\ browsers' = SelectSeq(browsers, LAMBDA b : b.id # calls[c].id)
    /\ Respond(c, 200, IF Truthy(calls[c].converted) THEN "json" ELSE "html")
    /\ UNCHANGED <<mvars, uvars, specs, started, contexts>>

\* The loop over the inputs, and the decision that follows it.
LinkFill(c) ==
    /\ calls[c].pc = "fill"
    /\ LET s == calls[c].id
           st == FillFields(calls[c].document[1], calls[c].fields)
       IN  IF st.ops # <<>> /\ (~contexts[s].open \/ OpFails(contexts[s].page, st.ops))
           THEN Respond(c, 500, "error")
           ELSE IF ShouldClick(st.document, st.names)
           THEN calls' = [calls EXCEPT
                            ![c].pc = "click",
                            ![c].fields = st.fields,
                            ![c].current = IF st.touched THEN Some(st.document) ELSE @]
           ELSE Respond(c, 200, "html")
    /\ UNCHANGED <<mvars, uvars, specs, started, browsers, contexts>>

\* autoclick(page, distilled), then the next iteration.  On a closed context
\* the locator raises.
LinkClick(c) ==
    /\ calls[c].pc = "click"
    /\ LET s == calls[c].id
           ops == ClickOps(calls[c].document[1])
       IN  IF ops # <<>> /\ ~contexts[s].open
           THEN Respond(c, 500, "error")
           ELSE calls' = [calls EXCEPT ![c].pc = "loop", ![c].document = None]
    /\ UNCHANGED <<mvars, uvars, specs, started, browsers, contexts>>

LinkStep(c) ==
    \/ LinkTimeout(c)
    \/ LinkMatch(c)
    \/ LinkClose(c)
    \/ LinkRemove(c)
    \/ LinkFill(c)
    \/ LinkClick(c)

Next ==
    \/ Start
    \/ PageChange
    \/ \E c \in Calls : LinkBegin(c)
    \/ \E c \in Calls : LinkStep(c)

Spec == Init /\ [][Next]_vars

\* A client that sends its /link requests one after the other, each after the
\* response to the one before.
SequentialNext ==
    \/ Start
    \/ PageChange
    \/ LinkBegin(1)
    \/ LinkStep(1)

\* The same client against a server whose ./specs is any of TerminalLibraries.
LibraryInit == MatcherIdle /\ NoRequest /\ UnitsIdle /\ specs \in TerminalLibraries

SpecLibraries == LibraryInit /\ [][SequentialNext]_vars

\* The steps of a request that follow the matcher pass of an iteration: the
\* fill, the clicks, the close, the removal and the end of the loop.
AfterPass(c) ==
    \/ LinkTimeout(c)
    \/ LinkClose(c)
    \/ LinkRemove(c)
    \/ LinkFill(c)
    \/ LinkClick(c)

\* The event loop runs a request that is past its matcher pass on to its next
\* suspension point; nothing makes a client send a request or a page change.
FairSpec == Init /\ [][SequentialNext]_vars /\ WF_vars(AfterPass(1))

\* ------------------------------------------------------ click, on its own

\* click(page, selector, timeout: int = 3000, frame_selector = None)
DefaultTimeout == 3000

LOCATOR_ALL_TIMEOUT == 100

MaxElements == 2

\* What an element of locator.all() does when click comes to it: is_visible()
\* is False; it is True and element.click() succeeds; it is True and
\* element.click() raises; is_visible() raises a TimeoutError; is_visible()
\* raises another exception.
ElementKinds == {"hidden", "clickable", "unclickable", "visible_timeout", "visible_error"}

\* What locator.all() does: it raises a TimeoutError, it raises another
\* exception, or it returns up to MaxElements elements.
Enumerations ==
    {[raises |-> "timeout", elements |-> <<>>], [raises |-> "error", elements |-> <<>>]}
    \cup {[raises |-> "", elements |-> e] :
             e \in UNION {[1..n -> ElementKinds] : n \in 0..MaxElements}}

RECURSIVE ClickElements(_, _)
\* The loop of click over the elements: it leaves with the exception of
\* is_visible(), returns after the first click that succeeds, passes over a
\* click that raises (the inner except prints it) and returns at the end of
\* the list.
ClickElements(elements, failed) ==
    IF elements = <<>> THEN [outcome |-> "return", clicked |-> FALSE, failed |-> failed]
    ELSE IF Head(elements) = "visible_timeout"
    THEN [outcome |-> "timeout", clicked |-> FALSE, failed |-> failed]
    ELSE IF Head(elements) = "visible_error"
    THEN [outcome |-> "error", clicked |-> FALSE, failed |-> failed]
    ELSE IF Head(elements) = "clickable"
    THEN [outcome |-> "return", clicked |-> TRUE, failed |-> failed]
    ELSE IF Head(elements) = "unclickable"
    THEN ClickElements(Tail(elements), TRUE)
    ELSE ClickElements(Tail(elements), failed)

\* The try block of click, once.
ClickOnce(enumeration) ==
    IF enumeration.raises # ""
    THEN [outcome |-> enumeration.raises, clicked |-> FALSE, failed |-> FALSE]
    ELSE ClickElements(enumeration.elements, FALSE)

\* click(page, selector, timeout - LOCATOR_ALL_TIMEOUT, frame_selector), with
\* the timeout left as it is.
RetryTimeoutSame(timeout) == timeout

\* click(page, selector, timeout - LOCATOR_ALL_TIMEOUT, frame_selector)
RetryTimeout(timeout) == timeout - LOCATOR_ALL_TIMEOUT

\* autoclick calls click with the default timeout.
KInit ==
    /\ MatcherIdle
    /\ ServerIdle
    /\ kPc = "call"
    /\ kTimeout = DefaultTimeout
    /\ kAttempts = 0
    /\ kClicked = FALSE
    /\ kFailed = FALSE
    /\ kRaised = ""
    /\ cDocument = Document(None, None, <<>>)
    /\ cConverted = None
    /\ cDone = FALSE
    /\ AutofillIdle
    /\ RunIdle

\* One pass through the body of click: the try block, and the except clause
\* that calls click again or raises.
ClickAttempt ==
    /\ kPc = "call"
    /\ \E enumeration \in Enumerations :
          LET r == ClickOnce(enumeration)
          IN  /\ kAttempts' = kAttempts + 1
              /\ kFailed' = r.failed
              /\ kClicked' = r.clicked
              /\ IF r.outcome = "return"
                 THEN kPc' = "returned" /\ kRaised' = "" /\ kTimeout' = kTimeout
                 ELSE IF kTimeout > 0 /\ r.outcome = "timeout"
                 THEN kPc' = "call" /\ kRaised' = "" /\ kTimeout' = RetryTimeout(kTimeout)
                 ELSE kPc' = "raised" /\ kRaised' = r.outcome /\ kTimeout' = kTimeout
    /\ UNCHANGED <<mvars, svars, cvars, avars, rvars>>

KNext == ClickAttempt

\* Every call click makes on the page returns or raises.
SpecClick == KInit /\ [][KNext]_vars /\ WF_vars(ClickAttempt)

\* ---------------------------------------------------- convert, on its own

MaxRows == 2

MaxColumns == 2

\* The rows of a snapshot: no cell; a cell "t"; two cells "t", the first with
\* blanks around its text; a cell "t" without text; a cell "u".
RowPool ==
    {Node("row", <<>>, None, kids) :
        kids \in {<<>>,
                  <<Cell("t", <<"x">>, None)>>,
                  <<Cell("t", <<" ", "x", " ">>, None), Cell("t", <<"y">>, None)>>,
                  <<Cell("t", <<>>, None)>>,
                  <<Cell("u", <<"z">>, None)>>}}

\* The columns of a converter: a scalar column "a" on the cells "t"; a list
\* column of the same name on the same cells; a list column "b" on the cells
\* "u"; a column without a name.
ColumnPool ==
    {[name |-> Some("a"), selector |-> Some("t"), attribute |-> None, kind |-> None],
     [name |-> Some("a"), selector |-> Some("t"), attribute |-> None, kind |-> Some("list")],
     [name |-> Some("b"), selector |-> Some("u"), attribute |-> None, kind |-> Some("list")],
     [name |-> None, selector |-> Some("t"), attribute |-> None, kind |-> None]}

\* The snapshots convert is given: a listing of up to MaxRows rows and a
\* converter of up to MaxColumns columns.
ConvertDocuments ==
    {[Document(None, None,
               <<[Element("div", None, None, FALSE, 0) EXCEPT !.stop = TRUE, !.content = rows]>>)
        EXCEPT !.payload = Some([wellFormed |-> TRUE, rows |-> "row", columns |-> columns])] :
        rows \in UNION {[1..n -> RowPool] : n \in 0..MaxRows},
        columns \in UNION {[1..n -> ColumnPool] : n \in 0..MaxColumns}}

CInit ==
    /\ MatcherIdle
    /\ ServerIdle
    /\ kPc = "idle"
    /\ kTimeout = 0
    /\ kAttempts = 0
    /\ kClicked = FALSE
    /\ kFailed = FALSE
    /\ kRaised = ""
    /\ cDocument \in ConvertDocuments
    /\ cConverted = None
    /\ cDone = FALSE
    /\ AutofillIdle
    /\ RunIdle

\* converted = await convert(page, distilled)
CConvert ==
    /\ ~cDone
    /\ cConverted' = convert(parse(cDocument))
    /\ cDone' = TRUE
    /\ UNCHANGED <<mvars, svars, kvars, avars, rvars, cDocument>>

CNext == CConvert

SpecConvert == CInit /\ [][CNext]_vars

\* ------------------------------------------------------ autofill, on its own

MaxInputs == 3

Sel_user == <<"#user">>
Sel_tel == <<"iframe#f", "#tel">>
Sel_p1 == <<"#p1">>
Sel_p2 == <<"#p2">>
Sel_s1 == <<"#s1">>

Input(type, name, id, match) ==
    [Element("input", match, None, FALSE, 0)
        EXCEPT !.type = Some(type), !.name = name, !.id = id]

\* The inputs of a snapshot: a text field "user"; an e-mail field without a
\* name; a password field without a directive; a telephone field "User" in a
\* frame; the two buttons of the radio group "plan"; a button of the group
\* "size" without an id; a checkbox that is checked.
InputPool ==
    {Input("text", Some("user"), None, Some(Sel_user)),
     Input("email", None, None, Some(Sel_email)),
     Input("password", Some("password"), None, None),
     Input("tel", Some("User"), None, Some(Sel_tel)),
     Input("radio", Some("plan"), Some("p1"), Some(Sel_p1)),
     Input("radio", Some("plan"), Some("p2"), Some(Sel_p2)),
     Input("radio", Some("size"), None, Some(Sel_s1)),
     [Input("checkbox", Some("keep"), None, Some(Sel_keep)) EXCEPT !.checked = TRUE]}

\* The snapshots autofill is given: up to MaxInputs inputs, with or without a
\* domain.
AutofillDocuments ==
    {Document(None, domain, inputs) :
        domain \in {None, Some(S_ab)},
        inputs \in UNION {[1..n -> InputPool] : n \in 0..MaxInputs}}

EnvVar(prefix, field, value) ==
    [key |-> [prefix |-> prefix, field |-> field], value |-> value]

\* The environments of the process: no variable of interest; USER and EMAIL;
\* an empty USER; AB_USER and PASSWORD.
Environs ==
    {{},
     {EnvVar(None, "USER", "v"), EnvVar(None, "EMAIL", "w")},
     {EnvVar(None, "USER", "")},
     {EnvVar(Some(<<"A", "B">>), "USER", "v"), EnvVar(None, "PASSWORD", "w")}}

\* The live pages: every input shows up; the field "user" and the second
\* button of "plan" do not.
AutofillPages ==
    {[k \in {LiveKey(None, Sel_user), LiveKey(None, Sel_email),
             LiveKey(Some("iframe#f"), <<"#tel">>), LiveKey(None, Sel_p1),
             LiveKey(None, Sel_p2), LiveKey(None, Sel_s1), LiveKey(None, Sel_keep)} |->
        <<Live(TRUE, <<>>, <<>>)>>],
     [k \in {LiveKey(None, Sel_email), LiveKey(Some("iframe#f"), <<"#tel">>),
             LiveKey(None, Sel_p1), LiveKey(None, Sel_s1), LiveKey(None, Sel_keep)} |->
        <<Live(TRUE, <<>>, <<>>)>>]}

\* What the user types at the prompts for a choice: nothing; "1"; "x" then
\* "2"; "3", "2" and "1".
AnswerPool ==
    {<<>>, <<<<"1">>>>, <<<<"x">>, <<"2">>>>, <<<<"3">>, <<"2">>, <<"1">>>>}

AInit ==
    /\ MatcherIdle
    /\ ServerIdle
    /\ kPc = "idle"
    /\ kTimeout = 0
    /\ kAttempts = 0
    /\ kClicked = FALSE
    /\ kFailed = FALSE
    /\ kRaised = ""
    /\ cDocument = Document(None, None, <<>>)
    /\ cConverted = None
    /\ cDone = FALSE
    /\ aPc = "call"
    /\ aDocument \in AutofillDocuments
    /\ aPage \in AutofillPages
    /\ aEnviron \in Environs
    /\ aTyped \in {"", "t"}
    /\ aAnswers \in AnswerPool
    /\ aOps = <<>>
    /\ aReturned = None
    /\ RunIdle

\* distilled = await autofill(page, match["distilled"])
AAutofill ==
    /\ aPc = "call"
    /\ \E r \in {autofill(aPage, aDocument, aEnviron, aTyped, aAnswers)} :
           /\ aOps' = r.ops
           /\ aPc' = IF r.outcome = "" THEN "returned" ELSE r.outcome
           /\ aReturned' = IF r.outcome = "" THEN Some(r.document) ELSE None
    /\ UNCHANGED <<mvars, svars, kvars, cvars, rvars, aDocument, aPage, aEnviron, aTyped, aAnswers>>

ANext == AAutofill

SpecAutofill == AInit /\ [][ANext]_vars

\* ------------------------------------------------------------ run_command

\* What run_command does with a match other than None, up to the next call on
\* the page, when every match is taken for a new one.
RunAfterMatchAlwaysNew(current, distilled) ==
    IF terminate(parse(distilled))
    THEN [pc |-> "finally", current |-> Some(distilled), document |-> None,
          trace |-> <<"distill", "terminate", "convert">>]
    ELSE [pc |-> "autofill", current |-> Some(distilled),
          document |-> Some(parse(distilled)),
          trace |-> <<"distill", "terminate">>]

\* What run_command does with a match other than None, up to the next call on
\* the page: nothing for the snapshot it has; else it adopts the snapshot and
\* either converts and leaves the loop or goes on to autofill.
RunAfterMatch(current, distilled) ==
    IF current = Some(distilled)
    THEN [pc |-> "loop", current |-> current, document |-> None, trace |-> <<"distill">>]
    ELSE IF terminate(parse(distilled))
    THEN [pc |-> "finally", current |-> Some(distilled), document |-> None,
          trace |-> <<"distill", "terminate", "convert">>]
    ELSE [pc |-> "autofill", current |-> Some(distilled),
          document |-> Some(parse(distilled)),
          trace |-> <<"distill", "terminate">>]

\* What the clicks of autoclick can do: all return, or one raises.
ClickOutcomes == {"returned", "raised"}

\* The command line has "run": main calls run_command.
RInit ==
    /\ MatcherIdle
    /\ ServerIdle
    /\ kPc = "idle"
    /\ kTimeout = 0
    /\ kAttempts = 0
    /\ kClicked = FALSE
    /\ kFailed = FALSE
    /\ kRaised = ""
    /\ cDocument = Document(None, None, <<>>)
    /\ cConverted = None
    /\ cDone = FALSE
    /\ AutofillIdle
    /\ rPc = "start"
    /\ RunLocals

\* The lines before the loop: the hostname, load_patterns, init and
\* page.goto, which ends the command with its exception when it raises.
RStart ==
    /\ rPc = "start"
    /\ \E hostname \in ServerHostnames, p \in SessionPages, reached \in BOOLEAN :
          /\ rHostname' = hostname
          /\ rPatterns' = load_patterns(specs)
          /\ rContext' = [open |-> TRUE, closes |-> 0, page |-> p]
          /\ rPc' = IF reached THEN "loop" ELSE "failed"
          /\ rRaised' = ~reached
    /\ UNCHANGED <<mvars, svars, kvars, cvars, avars, rIteration, rMatched, rCurrent, rDocument, rTrace>>

\* The live page changes while the command runs.
RPageChange ==
    /\ rPc \in {"loop", "autofill", "autoclick"}
    /\ rContext.open
    /\ \E p \in SessionPages :
          /\ p # rContext.page
          /\ rContext' = [rContext EXCEPT !.page = p]
    /\ UNCHANGED <<mvars, svars, kvars, cvars, avars, rPc, rHostname, rPatterns, rIteration, rMatched, rCurrent, rDocument, rTrace, rRaised>>

\* The user closes the browser window: from now on the calls on the page raise.
RCrash ==
    /\ rPc \in {"loop", "autofill", "autoclick"}
    /\ rContext.open
    /\ rContext' = [rContext EXCEPT !.open = FALSE, !.page = BlankPage]
    /\ UNCHANGED <<mvars, svars, kvars, cvars, avars, rPc, rHostname, rPatterns, rIteration, rMatched, rCurrent, rDocument, rTrace, rRaised>>

\* One iteration up to its first action on the page: sleep(TICK), distill, and
\* what follows from the match.
RMatch ==
    /\ rPc = "loop"
    /\ rIteration < MaxIterations
    /\ rIteration' = rIteration + 1
    /\ IF ~rContext.open
       THEN /\ rPc' = "finally"
            /\ rRaised' = TRUE
            /\ rTrace' = <<"distill">>
            /\ rMatched' = None
            /\ UNCHANGED <<rPatterns, rCurrent, rDocument>>
       ELSE \E r \in {distill(rHostname, rContext.page, rPatterns)} :
                /\ rPatterns' = r.patterns
                /\ rRaised' = FALSE
                /\ IF r.match = None
                   THEN /\ rMatched' = None
                        /\ rPc' = "loop"
                        /\ rTrace' = <<"distill">>
                        /\ UNCHANGED <<rCurrent, rDocument>>
                   ELSE \E after \in {RunAfterMatch(rCurrent, r.match[1].distilled)} :
                            /\ rMatched' = Some(r.match[1].distilled)
                            /\ rPc' = after.pc
                            /\ rCurrent' = after.current
                            /\ rDocument' = after.document
                            /\ rTrace' = after.trace
    /\ UNCHANGED <<mvars, svars, kvars, cvars, avars, rHostname, rContext>>

\* The loop ran through its iterations.
RExhausted ==
    /\ rPc = "loop"
    /\ rIteration = MaxIterations
    /\ rPc' = "finally"
    /\ UNCHANGED <<mvars, svars, kvars, cvars, avars, rHostname, rPatterns, rIteration, rContext, rMatched, rCurrent, rDocument, rTrace, rRaised>>

\* distilled = await autofill(page, match["distilled"]); while a prompt has no
\* answer the command waits.
RAutofill ==
    /\ rPc = "autofill"
    /\ \E environ \in Environs, typed \in {"", "t"}, answers \in AnswerPool :
          \E r \in {autofill(rContext.page, rDocument[1], environ, typed, answers)} :
              /\ r.outcome # "waiting"
              /\ rTrace' = Append(rTrace, "autofill")
              /\ rPc' = IF r.outcome = "raised" THEN "finally" ELSE "autoclick"
              /\ rRaised' = (r.outcome = "raised")
              /\ rDocument' = IF r.outcome = "raised" THEN None ELSE Some(r.document)
    /\ UNCHANGED <<mvars, svars, kvars, cvars, avars, rHostname, rPatterns, rIteration, rContext, rMatched, rCurrent>>

\* await autoclick(page, distilled): its clicks return, or one of them raises.
RAutoclick ==
    /\ rPc = "autoclick"
    /\ \E outcome \in ClickOutcomes :
          LET raises == /\ ClickOps(rDocument[1]) # <<>>
                        /\ ~rContext.open \/ outcome = "raised"
          IN  /\ rTrace' = Append(rTrace, "autoclick")
              /\ rPc' = IF raises THEN "finally" ELSE "loop"
              /\ rRaised' = raises
              /\ rDocument' = None
    /\ UNCHANGED <<mvars, svars, kvars, cvars, avars, rHostname, rPatterns, rIteration, rContext, rMatched, rCurrent>>

\* RClose as a statement after the loop rather than in a finally clause: an
\* exception passes it by.
RCloseAfterLoop ==
    /\ rPc = "finally"
    /\ rContext' = IF rRaised THEN rContext
                   ELSE [open |-> FALSE, closes |-> rContext.closes + 1, page |-> BlankPage]
    /\ rPc' = "done"
    /\ UNCHANGED <<mvars, svars, kvars, cvars, avars, rHostname, rPatterns, rIteration, rMatched, rCurrent, rDocument, rTrace, rRaised>>

\* finally: await context.close()
RClose ==
    /\ rPc = "finally"
    /\ rContext' = [open |-> FALSE, closes |-> rContext.closes + 1, page |-> BlankPage]
    /\ rPc' = "done"
    /\ UNCHANGED <<mvars, svars, kvars, cvars, avars, rHostname, rPatterns, rIteration, rMatched, rCurrent, rDocument, rTrace, rRaised>>

RNext ==
    \/ RStart
    \/ RPageChange
    \/ RCrash
    \/ RMatch
    \/ RExhausted
    \/ RAutofill
    \/ RAutoclick
    \/ RClose

\* Every call of context.close() returns.
SpecRun == RInit /\ [][RNext]_vars /\ WF_vars(RClose)

\* main: with "run" on the command line it calls run_command, without a
\* command it starts the server.
ProgramInit ==
    /\ MatcherIdle
    /\ ServerIdle
    /\ kPc = "idle"
    /\ kTimeout = 0
    /\ kAttempts = 0
    /\ kClicked = FALSE
    /\ kFailed = FALSE
    /\ kRaised = ""
    /\ cDocument = Document(None, None, <<>>)
    /\ cConverted = None
    /\ cDone = FALSE
    /\ AutofillIdle
    /\ rPc \in {"idle", "start"}
    /\ RunLocals

ProgramNext ==
    \/ rPc = "idle" /\ SequentialNext
    \/ RNext

SpecProgram == ProgramInit /\ [][ProgramNext]_vars

\* ------------------------------------------------- the claims on the matcher

\* The targets of a specification: the elements of its tree that carry a match
\* or match-html directive naming a selector.
TargetSet(pattern) ==
    {i \in 1..Len(pattern.elems) :
        /\ pattern.elems[i].attached
        /\ pattern.elems[i].match # None \/ pattern.elems[i].html # None
        /\ get_selector(Directive(pattern.elems[i]))[1] # <<>>}

\* The target resolves to a visible live element of the page.
Resolves(page, target) ==
    LET parsed == get_selector(Directive(target))
        els == LiveElements(page, parsed[2], parsed[1])
    IN  \E k \in 1..Len(els) : els[k].visible

\* The hostname is one of the loopback names distill recognises.
Loopback(hostname) ==
    Contains(S_localhost, hostname) \/ Contains(S_127_0_0_1, hostname)

\* The domain occurs in the hostname, letter case ignored.
DomainInHostname(domain, hostname) ==
    \E off \in 0..(Len(hostname) - Len(domain)) :
        \A k \in 1..Len(domain) : LowerChar(domain[k]) = LowerChar(hostname[off + k])

\* The specification is to be skipped for the hostname.
DomainMismatch(hostname, pattern) ==
    /\ pattern.hasRoot /\ pattern.domain # None /\ pattern.domain[1] # <<>>
    /\ hostname # <<>>
    /\ ~Loopback(hostname)
    /\ ~DomainInHostname(pattern.domain[1], hostname)

\* The specification qualifies: it is evaluated, no required target failed to
\* resolve and at least one target resolved.
Qualifies(hostname, page, pattern) ==
    /\ ~DomainMismatch(hostname, pattern)
    /\ \A i \in TargetSet(pattern) :
          ~pattern.elems[i].optional => Resolves(page, pattern.elems[i])
    /\ \E i \in TargetSet(pattern) : Resolves(page, pattern.elems[i])

\* The specifications that qualified in the latest pass.
Qualifying ==
    {i \in 1..Len(mBefore) : Qualifies(mHostname, mRanOn, mBefore[i].pattern)}

\* i is the first, in load order, of the qualifying specifications of lowest priority.
Best(i) ==
    /\ i \in Qualifying
    /\ \A j \in Qualifying :
          \/ Priority(mBefore[i].pattern) < Priority(mBefore[j].pattern)
          \/ Priority(mBefore[i].pattern) = Priority(mBefore[j].pattern) /\ i <= j

Returned(i) == mRuns >= 1 /\ mMatch # None /\ mMatch[1].name = i

\* C1: when a specification qualifies, distill returns the qualifying
\* specification of lowest priority, the first in load order among equals; when
\* none qualifies it returns None.
C1_LowestPriorityFirstLoaded ==
    mRuns >= 1 =>
        IF Qualifying = {} THEN mMatch = None
        ELSE /\ mMatch # None
             /\ Best(mMatch[1].name)
             /\ mMatch[1].priority = Priority(mBefore[mMatch[1].name].pattern)

\* C1 witness: two specifications of the same, lowest priority qualified and
\* the first of them was returned.
C1_Witness ==
    /\ mRuns >= 1 /\ mMatch # None
    /\ \E i, j \in Qualifying :
          /\ i < j /\ Best(i) /\ Returned(i)
          /\ Priority(mBefore[i].pattern) = Priority(mBefore[j].pattern)

\* C2: a specification with a required target that did not resolve to a visible
\* live element is not returned, whatever its other targets did.
C2_RequiredUnresolvedNeverReturned ==
    \A i \in 1..Len(mBefore) :
        (\E t \in TargetSet(mBefore[i].pattern) :
            /\ ~mBefore[i].pattern.elems[t].optional
            /\ ~Resolves(mRanOn, mBefore[i].pattern.elems[t]))
        => ~Returned(i)

\* C2 witness: a pass over a checked specification with an unresolved required
\* target and a resolved other target.
C2_Witness ==
    /\ mRuns >= 1
    /\ \E i \in 1..Len(mBefore) :
          /\ mChecked[i]
          /\ \E t, u \in TargetSet(mBefore[i].pattern) :
                /\ ~mBefore[i].pattern.elems[t].optional
                /\ ~Resolves(mRanOn, mBefore[i].pattern.elems[t])
                /\ Resolves(mRanOn, mBefore[i].pattern.elems[u])
          /\ ~Returned(i)

\* C3: a specification none of whose targets resolved is not returned, also
\* when all its targets are optional or it has none.
C3_NothingResolvedNeverReturned ==
    \A i \in 1..Len(mBefore) :
        (\A t \in TargetSet(mBefore[i].pattern) :
            ~Resolves(mRanOn, mBefore[i].pattern.elems[t]))
        => ~Returned(i)

\* C3 witness: a pass over a checked specification that has targets, all of
\* them optional, none resolved; and one over a specification with no target.
C3_Witness ==
    /\ mRuns >= 1
    /\ \E i, j \in 1..Len(mBefore) :
          /\ mChecked[i] /\ mChecked[j]
          /\ TargetSet(mBefore[i].pattern) # {}
          /\ \A t \in TargetSet(mBefore[i].pattern) :
                /\ mBefore[i].pattern.elems[t].optional
                /\ ~Resolves(mRanOn, mBefore[i].pattern.elems[t])
          /\ TargetSet(mBefore[j].pattern) = {}
          /\ ~Returned(i) /\ ~Returned(j)

SameSelection(a, b) ==
    \/ a = None /\ b = None
    \/ a # None /\ b # None /\ a[1].name = b[1].name /\ a[1].distilled = b[1].distilled

\* C5: two passes in a row over the same specification list against a page
\* that did not change select the same specification and give the same
\* distilled string.
C5_SecondPassSame ==
    (mRuns = 2 /\ mStable) => SameSelection(mMatch, mPrev)

\* -------------------------------------------------- the claims on the server

InProgress(c) == calls[c].pc \notin {"idle", "done"}

Registered(id) == Lookup(id) # None

\* The step adopts a snapshot with the stop marker in request c.
AdoptsTerminal(c) ==
    /\ calls[c].pc = "loop"
    /\ calls'[c].current # calls[c].current
    /\ calls'[c].current # None
    /\ terminate(parse(calls'[c].current[1]))

C7_ExhaustedReleases ==
    \A c \in Calls :
        (calls[c].pc = "done" /\ calls[c].response.status = 503)
        => ~contexts[calls[c].id].open

\* C8: the context of a session is never closed a second time.
C8_ClosedAtMostOnce ==
    \A s \in 1..Len(contexts) : contexts[s].closes <= 1

\* C9: every session start created has its context closed in the end; so, all
\* the more, from any moment on its context gets closed or a request is at
\* work.
C9_EventuallyReleased ==
    \A s \in 1..MaxSessions :
        (Len(contexts) >= s) ~>
            \/ Len(contexts) >= s /\ ~contexts[s].open
            \/ \E c \in Calls : InProgress(c)

\* The step is a matcher pass, the loop over the inputs or the clicks of
\* request c.
ActsOnPage(c) ==
    \/ calls[c].pc = "loop" /\ calls[c].iteration < MaxIterations /\ calls'[c] # calls[c]
    \/ calls[c].pc = "fill" /\ calls'[c] # calls[c]
    \/ calls[c].pc = "click" /\ calls'[c] # calls[c]

\* C10: while a request for a session is in progress, no other request for
\* the same session runs a matcher pass, a fill, a check or a click.
C10_RoundsSequential ==
    [][\A c, d \in Calls :
          (c # d /\ ActsOnPage(c) /\ InProgress(d)) => calls[d].id # calls[c].id
    ]_vars

\* The matcher pass request c is about to make gives the snapshot its previous
\* matching iteration gave.
SameSnapshotAgain(c) ==
    /\ calls[c].pc = "loop"
    /\ calls[c].iteration < MaxIterations
    /\ contexts[calls[c].id].open
    /\ calls[c].matched # None
    /\ LET r == distill(calls[c].hostname, contexts[calls[c].id].page, calls[c].patterns)
       IN  r.match # None /\ calls[c].matched = Some(r.match[1].distilled)

\* C11: an iteration of link whose snapshot is the one of the previous matching
\* iteration of the same request goes on to the next iteration: no field is
\* resolved, nothing is clicked, nothing is returned.
C11_SameSnapshotSkipped ==
    [][\A c \in Calls :
          (SameSnapshotAgain(c) /\ calls'[c] # calls[c]) =>
              /\ calls'[c].pc = "loop"
              /\ calls'[c].iteration = calls[c].iteration + 1
              /\ calls'[c].current = calls[c].current
              /\ calls'[c].fields = calls[c].fields
    ]_vars

\* The caller supplied a value for input i of the document.
SuppliedFor(document, fields, i) ==
    /\ HasName(document.elems[i])
    /\ Given(FieldsGet(fields, document.elems[i].name[1]))

\* The document has an element to click: one with the auto-click directive, or
\* a submit button.
HasActionTarget(document) ==
    \E i \in 1..Len(document.elems) :
        /\ document.elems[i].attached
        /\ \/ document.elems[i].autoclick
           \/ document.elems[i].tag = "button" /\ document.elems[i].type = Some("submit")

\* C12: in a round of link that adopted a snapshot without the stop marker,
\* autoclick runs exactly when every input of the snapshot got a value the
\* caller supplied, or the snapshot has no input and has something to click.
C12_ClickIffAllSupplied ==
    [][\A c \in Calls :
          (calls[c].pc = "fill" /\ calls'[c] # calls[c] /\ calls'[c].response.status # 500) =>
              LET document == calls[c].document[1]
                  inputs == Inputs(document)
              IN  (calls'[c].pc = "click") <=>
                     \/ /\ inputs # <<>>
                        /\ \A k \in 1..Len(inputs) :
                              SuppliedFor(document, calls[c].fields, inputs[k])
                     \/ inputs = <<>> /\ HasActionTarget(document)
    ]_vars

\* Request c ends in this step.
Ends(c) == InProgress(c) /\ calls'[c].pc = "done"

\* C13, as first stated: a request for a registered session ends with the
\* partially filled snapshot, with the terminal result or with the timeout,
\* and in no other way.
C13_ThreeOutcomesOnly ==
    \A c \in Calls :
        (calls[c].pc = "done" /\ calls[c].response.status # 404) =>
            calls[c].response \in {[status |-> 200, kind |-> "html"],
                                   [status |-> 200, kind |-> "json"],
                                   [status |-> 503, kind |-> "error"]}

\* C13: a request for a registered session makes at most 15 iterations and
\* ends at the first of: the snapshot returned because the fields did not all
\* resolve and nothing was clicked; the terminal result; the timeout once the
\* 15 iterations are used up; or a server error because a page query or a
\* page action raised.
C13_Outcomes ==
    [][\A c \in Calls :
          /\ calls'[c].iteration <= 15
          /\ Ends(c) =>
                LET s == calls[c].id
                    status == calls'[c].response.status
                IN  \/ /\ calls[c].pc = "fill"
                       /\ calls'[c].response = [status |-> 200, kind |-> "html"]
                       /\ LET st == FillFields(calls[c].document[1], calls[c].fields)
                          IN  ~ShouldClick(st.document, st.names)
                    \/ /\ calls[c].pc = "remove"
                       /\ status = 200
                       /\ terminate(parse(calls[c].current[1]))
                    \/ /\ calls[c].pc = "loop"
                       /\ calls[c].iteration = 15
                       /\ calls'[c].response = [status |-> 503, kind |-> "error"]
                    \/ /\ calls[c].pc \in {"loop", "fill", "click"}
                       /\ calls[c].iteration < 15 \/ calls[c].pc # "loop"
                       /\ calls'[c].response = [status |-> 500, kind |-> "error"]
                       /\ \/ ~contexts[s].open
                          \/ /\ calls[c].pc = "fill"
                             /\ OpFails(contexts[s].page,
                                        FillFields(calls[c].document[1], calls[c].fields).ops)
    ]_vars

\* C13 witness: a request ended with a server error while the context of its
\* session is open: a fill or a check raised.
C13_Witness ==
    \E c \in Calls :
        /\ calls[c].pc = "done"
        /\ calls[c].response.status = 500
        /\ contexts[calls[c].id].open

\* Request c arrives in this step.
Arrives(c) == ~InProgress(c) /\ calls'[c] # calls[c]

\* C14: a /link request for an id the registry does not know is answered 404
\* at once: no specification is loaded, no matcher pass is made, nothing on a
\* page is queried or acted on, and the registry and the contexts stay as
\* they are.  /start with an empty location is answered 400 and makes no
\* session.
C14_RejectedBeforeAutomation ==
    [][/\ \A c \in Calls :
             (Arrives(c) /\ \E id \in 1..MaxSessions : calls'[c].id = id /\ ~Registered(id)) =>
                 /\ calls'[c].pc = "done"
                 /\ calls'[c].response = [status |-> 404, kind |-> "error"]
                 /\ calls'[c].patterns = <<>>
                 /\ calls'[c].iteration = 0
                 /\ calls'[c].matched = None
                 /\ UNCHANGED <<browsers, contexts>>
       /\ \A c \in Calls :
             (Arrives(c) /\ Registered(calls'[c].id)) => calls'[c].response.status # 404
       /\ (started # started' /\ started' = 400) => UNCHANGED <<browsers, contexts, calls>>
       /\ (browsers # browsers' /\ Len(browsers') > Len(browsers)) => started' = 200
    ]_vars

\* C14 witness: /start was answered 400 and no session exists, and a /link
\* request was answered 404.
C14_Witness ==
    /\ started = 400
    /\ browsers = <<>> /\ contexts = <<>>
    /\ \E c \in Calls : calls[c].pc = "done" /\ calls[c].response.status = 404

\* The required targets of a specification.
RequiredTargets(pattern) == {t \in TargetSet(pattern) : ~pattern.elems[t].optional}

\* C17: the match distill returns carries as many live elements as the
\* specification it selected has required targets.
C17_MatchesCountRequired ==
    (mRuns >= 1 /\ mMatch # None) =>
        Len(mMatch[1].matches) = Cardinality(RequiredTargets(mLoaded[mMatch[1].name].pattern))

\* C18: in the snapshot distill returns, a target that does not resolve on
\* the page of this pass has the content the loaded specification had.
C18_UnresolvedShowsOriginal ==
    (mRuns >= 1 /\ mMatch # None) =>
        LET i == mMatch[1].name
        IN  \A t \in TargetSet(mLoaded[i].pattern) :
                ~Resolves(mRanOn, mLoaded[i].pattern.elems[t]) =>
                    mMatch[1].distilled.elems[t].content = mLoaded[i].pattern.elems[t].content

\* ---------------------------------------------------- the claims on click

\* C15: click ends: from the timeout of 3000, less 100 at every retry, it makes
\* at most 31 enumerations (timeouts 3000, 2900, ..., 0) and then has returned
\* or raised; every retry runs with a smaller timeout.
C15_ClickTerminates ==
    /\ [](/\ kAttempts <= 31
          /\ kTimeout >= 0
          /\ kPc = "call" => kTimeout = 3000 - 100 * kAttempts
          /\ kPc # "call" => kTimeout = 3000 - 100 * (kAttempts - 1))
    /\ [][(kPc = "call" /\ kPc' = "call") => kTimeout' < kTimeout]_vars
    /\ <>(kPc \in {"returned", "raised"})

\* C15 witness: click raised at its 31st enumeration, with the timeout at 0.
C15_Witness == kPc = "raised" /\ kAttempts = 31 /\ kTimeout = 0 /\ kRaised = "timeout"

\* C16: click does not return normally from an attempt in which the click it
\* tried raised.
C16_FailedClickRaised == kPc = "returned" => ~kFailed

\* -------------------------------------------------- the claims on convert

\* The rows and the columns of the snapshot given to convert.
GivenRows == cDocument.elems[1].content

GivenColumns == cDocument.payload[1].columns

\* The column has the name and the selector without which convert skips it.
Effective(col) == col.name # None /\ col.selector # None

\* The cells of the row the selector of the column matches.
Matching(row, col) == SelectSeq(row.kids, LAMBDA k : k.cls = col.selector[1])

\* The column puts a value in the record of the row.
Populates(col, row) ==
    /\ Effective(col)
    /\ col.kind = Some("list") \/ Matching(row, col) # <<>>

\* The rows that get a record.
KeptRows ==
    SelectSeq(GivenRows, LAMBDA row :
        \E c \in 1..Len(GivenColumns) : Populates(GivenColumns[c], row))

\* The names of a record.
Keys(kv) == {kv[k].name : k \in 1..Len(kv)}

\* C19, as first stated: a column is in a record only if its selector matched
\* something in the row.
C19_EveryColumnMatched ==
    (cDone /\ cConverted # None) =>
        \A r \in 1..Len(cConverted[1]) : \A k \in 1..Len(cConverted[1][r]) :
            cConverted[1][r][k].value.list => cConverted[1][r][k].value.items # <<>>

\* C19: a scalar column whose selector matches nothing in a row is left out of
\* the record of that row, a column of kind list is in it whatever it
\* matches, and a row that gets no column is dropped: the records are those of
\* the rows with at least one column, in order, each with exactly the names of
\* the columns that populate it, at least one.
C19_RecordsOfPopulatedRows ==
    cDone =>
        /\ cConverted # None
        /\ Len(cConverted[1]) = Len(KeptRows)
        /\ \A r \in 1..Len(KeptRows) :
              /\ Keys(cConverted[1][r]) =
                    {GivenColumns[c].name[1] :
                        c \in {d \in 1..Len(GivenColumns) : Populates(GivenColumns[d], KeptRows[r])}}
              /\ Keys(cConverted[1][r]) # {}

\* C19 witness: of two rows one scalar column matches only the first, and the
\* result has the one record of that row.
C19_Witness ==
    /\ cDone
    /\ Len(GivenRows) = 2 /\ Len(GivenColumns) = 1
    /\ GivenColumns[1].kind = None /\ Effective(GivenColumns[1])
    /\ Matching(GivenRows[1], GivenColumns[1]) # <<>>
    /\ Matching(GivenRows[2], GivenColumns[1]) = <<>>
    /\ cConverted # None /\ Len(cConverted[1]) = 1
    /\ cConverted[1][1] = <<[name |-> "a", value |-> Scalar(<<"x">>)]>>

\* C20: a column of kind list gives every row a record with a list under its
\* name: the stripped texts of the cells it matches, in order, the empty list
\* when it matches none (unless a later column has the same name).
C20_ListColumnAlwaysList ==
    cDone =>
        \A c \in 1..Len(GivenColumns) :
            (/\ Effective(GivenColumns[c])
             /\ GivenColumns[c].kind = Some("list")
             /\ \A d \in (c + 1)..Len(GivenColumns) :
                   Effective(GivenColumns[d]) => GivenColumns[d].name # GivenColumns[c].name)
            => /\ cConverted # None
               /\ Len(cConverted[1]) = Len(GivenRows)
               /\ \A r \in 1..Len(GivenRows) :
                     \E k \in 1..Len(cConverted[1][r]) :
                         LET cells == Matching(GivenRows[r], GivenColumns[c])
                         IN  /\ cConverted[1][r][k].name = GivenColumns[c].name[1]
                             /\ cConverted[1][r][k].value.list
                             /\ cConverted[1][r][k].value.items =
                                   [i \in 1..Len(cells) |-> Strip(cells[i].text)]

\* C20 witness: a list column matches nothing in a row, and the record of the
\* row has the empty list under its name.
C20_Witness ==
    /\ cDone /\ cConverted # None
    /\ \E c \in 1..Len(GivenColumns), r \in 1..Len(GivenRows) :
          /\ GivenColumns[c].kind = Some("list")
          /\ Matching(GivenRows[r], GivenColumns[c]) = <<>>
          /\ Len(cConverted[1]) = Len(GivenRows)
          /\ \E k \in 1..Len(cConverted[1][r]) :
                /\ cConverted[1][r][k].name = GivenColumns[c].name[1]
                /\ cConverted[1][r][k].value = List(<<>>)

\* ---------------------------------------------------------------------------
\* Default priority
\* ---------------------------------------------------------------------------

\* The specification declares no priority, or one that is not an integer.
Unranked(pattern) ==
    \/ ~pattern.hasRoot
    \/ pattern.priority = None
    \/ ~IsIntLiteral(LStripChars(pattern.priority[1], {"=", " "}))

\* C27: a qualifying specification without a priority, or with one that is not
\* an integer, is returned with priority -1 unless the returned specification
\* has a priority below -1 or has priority -1 and was loaded earlier; it never
\* loses to a specification of priority 0 or more.
C27_DefaultPriorityWins ==
    mRuns >= 1 =>
        \A i \in Qualifying :
            Unranked(mBefore[i].pattern) =>
                /\ mMatch # None
                /\ mMatch[1].name \in Qualifying
                /\ \/ mMatch[1].name = i /\ mMatch[1].priority = -1
                   \/ mMatch[1].priority < -1
                   \/ mMatch[1].priority = -1 /\ mMatch[1].name < i

\* C27 witness: a specification without a usable priority was returned although
\* a specification of priority 0 or more, loaded before it, qualified as well.
C27_Witness ==
    /\ mRuns >= 1 /\ mMatch # None
    /\ \E i, j \in Qualifying :
          /\ Returned(i) /\ Unranked(mBefore[i].pattern)
          /\ j < i /\ ~Unranked(mBefore[j].pattern)
          /\ IntValue(LStripChars(mBefore[j].pattern.priority[1], {"=", " "})) >= 0

\* ---------------------------------------------------------------------------
\* Conversion errors
\* ---------------------------------------------------------------------------

\* The payload of the snapshot makes the conversion fail: it does not parse to
\* a JSON object, or a selector that gets evaluated is rejected.
PayloadFaulty(document) ==
    /\ document.payload # None
    /\ \/ ~document.payload[1].wellFormed
       \/ document.payload[1].rows \in InvalidSelectors
       \/ /\ SelectNodes(document, document.payload[1].rows) # <<>>
          /\ \E k \in 1..Len(document.payload[1].columns) :
                /\ Effective(document.payload[1].columns[k])
                /\ document.payload[1].columns[k].selector[1] \in InvalidSelectors

\* C21: an iteration on an open context never ends the request with an
\* error, and a terminal round goes on to close the context whatever the
\* payload; without a payload, or with one that makes the conversion fail,
\* there is no conversion result; and with no result the round closes the
\* context, removes the handle and returns the rendered snapshot.
C21_ConversionNeverFails ==
    [][\A c \in Calls :
          /\ (calls[c].pc = "loop" /\ calls'[c].pc = "done" /\ contexts[calls[c].id].open) =>
                calls'[c].response.status = 503
          /\ AdoptsTerminal(c) =>
                /\ calls'[c].pc = "close"
                /\ (\/ parse(calls'[c].current[1]).payload = None
                    \/ PayloadFaulty(parse(calls'[c].current[1])))
                   => calls'[c].converted = None
          /\ (calls[c].pc = "close" /\ calls[c].converted = None /\ calls'[c] # calls[c]) =>
                /\ calls'[c].pc = "remove"
                /\ ~contexts'[calls[c].id].open
          /\ (calls[c].pc = "remove" /\ calls[c].converted = None /\ calls'[c] # calls[c]) =>
                /\ ~Registered(calls[c].id)'
                /\ calls'[c].pc = "done"
                /\ calls'[c].response = [status |-> 200, kind |-> "html"]
    ]_vars

\* C21 witness: the conversion failed on a rejected column selector, there is
\* no result, and the context of the round is closed.
C21_Witness ==
    \E c \in Calls :
        /\ calls[c].pc = "remove"
        /\ calls[c].document # None
        /\ PayloadFaulty(calls[c].document[1])
        /\ calls[c].document[1].payload[1].wellFormed
        /\ calls[c].document[1].payload[1].rows \notin InvalidSelectors
        /\ calls[c].converted = None
        /\ ~contexts[calls[c].id].open

\* ---------------------------------------------------------------------------
\* Autofill
\* ---------------------------------------------------------------------------

\* The inputs of the snapshot that are value fields with a selector.
ValueFields ==
    {i \in 1..Len(aDocument.elems) :
        /\ aDocument.elems[i].attached
        /\ aDocument.elems[i].tag = "input"
        /\ aDocument.elems[i].type \in {Some("text"), Some("email"), Some("tel"), Some("password")}
        /\ aDocument.elems[i].match # None
        /\ get_selector(aDocument.elems[i].match[1])[1] # <<>>}

\* The non-empty values the environment has under the lookup key of the field.
Supplied(i) ==
    LET field == IF HasName(aDocument.elems[i]) THEN aDocument.elems[i].name[1]
                 ELSE aDocument.elems[i].type[1]
    IN  {e.value : e \in {v \in aEnviron : v.key = EnvKey(aDocument, field) /\ v.value # ""}}

\* The positions in aOps of the calls of this kind made for the input.
OpsOf(op, i) == {k \in 1..Len(aOps) : aOps[k].op = op /\ aOps[k].field = i}

\* C22: for a value field whose lookup key has a non-empty value in the
\* environment, autofill shows no prompt, and when it returns it has filled the
\* live field once, with that value, and the returned document has the value
\* on the element.
C22_EnvValueApplied ==
    aPc # "call" =>
        \A i \in ValueFields :
            Supplied(i) # {} =>
                /\ OpsOf("ask", i) = {}
                /\ \A k \in OpsOf("fill", i) :
                      /\ aOps[k].value # None /\ aOps[k].value[1] \in Supplied(i)
                      /\ aOps[k].selector = get_selector(aDocument.elems[i].match[1])[1]
                      /\ aOps[k].frame = get_selector(aDocument.elems[i].match[1])[2]
                /\ aPc = "returned" =>
                      /\ Cardinality(OpsOf("fill", i)) = 1
                      /\ aReturned[1].elems[i].value # None
                      /\ aReturned[1].elems[i].value[1] \in Supplied(i)

\* C22 witness: autofill returned; one field took its value from a variable
\* with the domain in its name, another one was asked for.
C22_Witness ==
    /\ aPc = "returned"
    /\ \E i, j \in ValueFields :
          /\ Supplied(i) = {"v"}
          /\ EnvKey(aDocument, "user").prefix # None
          /\ OpsOf("ask", i) = {}
          /\ \E k \in OpsOf("fill", i) : aOps[k].value = Some("v")
          /\ aReturned[1].elems[i].value = Some("v")
          /\ Supplied(j) = {}
          /\ OpsOf("ask", j) # {}

\* The names of the radio groups of the snapshot.
Groups ==
    {aDocument.elems[i].name[1] :
        i \in {j \in 1..Len(aDocument.elems) :
                  /\ aDocument.elems[j].attached
                  /\ aDocument.elems[j].type = Some("radio")
                  /\ HasName(aDocument.elems[j])}}

\* The positions in aOps of the calls made for the group.
GroupOps(name) ==
    {k \in 1..Len(aOps) :
        /\ aDocument.elems[aOps[k].field].type = Some("radio")
        /\ aDocument.elems[aOps[k].field].name = Some(name)}

\* C23: in one pass of autofill the calls made for a radio group come from one
\* button of the group, follow one another without a call for another input
\* in between, and end with at most one check, which follows the prompts for
\* the choice.
C23_GroupProcessedOnce ==
    aPc # "call" =>
        \A name \in Groups :
            /\ \A k, l \in GroupOps(name) : aOps[k].field = aOps[l].field
            /\ \A k, l \in GroupOps(name) : \A n \in k..l : n \in GroupOps(name)
            /\ Cardinality({k \in GroupOps(name) : aOps[k].op = "check"}) <= 1
            /\ \A k, l \in GroupOps(name) :
                  (aOps[k].op = "check" /\ l # k) => (l < k /\ aOps[l].op = "ask")

\* C23 witness: the snapshot has two buttons of one group, autofill returned,
\* and the group got one check after a prompt.
C23_Witness ==
    /\ aPc = "returned"
    /\ \E i, j \in 1..Len(aDocument.elems) :
          /\ i < j
          /\ aDocument.elems[i].type = Some("radio")
          /\ aDocument.elems[j].type = Some("radio")
          /\ aDocument.elems[i].name = Some("plan")
          /\ aDocument.elems[j].name = Some("plan")
          /\ Cardinality({k \in GroupOps("plan") : aOps[k].op = "check"}) = 1
          /\ Cardinality({k \in GroupOps("plan") : aOps[k].op = "ask"}) >= 1

\* ---------------------------------------------------------------------------
\* The loop of run_command, and the terminal check in both flows
\* ---------------------------------------------------------------------------

\* The snapshot carries the stop marker.
HasStop(snapshot) ==
    \E i \in 1..Len(snapshot.elems) : snapshot.elems[i].attached /\ snapshot.elems[i].stop

FullRound == <<"distill", "terminate", "autofill", "autoclick">>

TerminalRound == <<"distill", "terminate", "convert">>

\* C24: in run_command an iteration whose snapshot is the one adopted last
\* calls nothing after the matcher; a new snapshot without the stop marker is
\* adopted and followed by autofill, then autoclick, once each and before the
\* next iteration (unless one of them raises, which ends the loop); a new
\* snapshot with the stop marker ends the loop, and no iteration follows.
C24_RunRounds ==
    [][/\ rIteration' = rIteration + 1 =>
             /\ rTrace \in {<<>>, <<"distill">>, FullRound}
             /\ (rMatched' # None /\ rMatched' = rCurrent) =>
                   (rTrace' = <<"distill">> /\ rPc' = "loop" /\ rCurrent' = rCurrent)
             /\ (rMatched' # None /\ rMatched' # rCurrent) =>
                   /\ rCurrent' = rMatched'
                   /\ IF HasStop(rMatched'[1])
                      THEN rPc' = "finally" /\ rTrace' = TerminalRound
                      ELSE rPc' = "autofill" /\ rTrace' = <<"distill", "terminate">>
       /\ rPc \in {"finally", "done", "failed"} => rIteration' = rIteration
       /\ (rTrace' # rTrace /\ rIteration' = rIteration) =>
             \/ /\ rPc = "autofill" /\ rTrace = <<"distill", "terminate">>
                /\ rTrace' = <<"distill", "terminate", "autofill">>
                /\ rPc' \in {"autoclick", "finally"}
                /\ rPc' = "finally" => rRaised'
             \/ /\ rPc = "autoclick" /\ rTrace = <<"distill", "terminate", "autofill">>
                /\ rTrace' = FullRound
                /\ rPc' \in {"loop", "finally"}
                /\ rPc' = "finally" => rRaised'
    ]_vars

\* C24 witness: the third iteration or a later one found the snapshot that an
\* earlier one adopted, filled and clicked, and called nothing after distill.
C24_Witness ==
    /\ rPc = "loop" /\ rIteration >= 3
    /\ rTrace = <<"distill">>
    /\ rMatched # None /\ rMatched = rCurrent
    /\ ~HasStop(rCurrent[1])

\* The trace is the beginning of one of the two rounds.
IsPrefix(t, full) == Len(t) <= Len(full) /\ t = SubSeq(full, 1, Len(t))

\* C25: in link and in run_command the terminal check comes before the fields
\* and the clicks: a round that adopts a snapshot with the stop marker goes to
\* the conversion and to the end of the flow without a fill, a check or a
\* click, and the conversion runs in no other round.
C25_TerminalCheckFirst ==
    [][/\ \A c \in Calls :
             /\ (/\ calls[c].pc = "loop"
                 /\ calls'[c].current # calls[c].current
                 /\ calls'[c].current # None
                 /\ HasStop(parse(calls'[c].current[1]))) => calls'[c].pc = "close"
             /\ calls'[c].pc \in {"fill", "click"} =>
                   (calls'[c].document # None /\ ~HasStop(calls'[c].document[1]))
             /\ calls'[c].pc \in {"close", "remove"} =>
                   (calls'[c].document # None /\ HasStop(calls'[c].document[1]))
             /\ (calls[c].pc \in {"close", "remove"} /\ calls'[c] # calls[c]) =>
                   calls'[c].pc \in {"remove", "done"}
             /\ (calls'[c].converted # None /\ calls'[c].converted # calls[c].converted) =>
                   (calls[c].pc = "loop" /\ calls'[c].pc = "close")
       /\ IsPrefix(rTrace', TerminalRound) \/ IsPrefix(rTrace', FullRound)
       /\ (rMatched' # None /\ rMatched' # rCurrent /\ rIteration' = rIteration + 1
           /\ HasStop(rMatched'[1])) => (rTrace' = TerminalRound /\ rPc' = "finally")
       /\ rTrace' = TerminalRound => (rCurrent' # None /\ HasStop(rCurrent'[1]))
       /\ (rPc' \in {"autofill", "autoclick"} \/ Len(rTrace') > 3) =>
             (rCurrent' # None /\ ~HasStop(rCurrent'[1]))
    ]_vars

\* C25 witness: run_command adopted a snapshot with the stop marker in a later
\* iteration, after a round with autofill and autoclick, converted and left
\* the loop.
C25_Witness ==
    /\ rPc = "finally" /\ rIteration >= 2
    /\ rTrace = TerminalRound
    /\ rCurrent # None /\ HasStop(rCurrent[1])
    /\ ~rRaised

\* C26: run_command leaves its loop only towards the finally clause, whether
\* by the stop marker, after the last iteration or with an exception of distill,
\* autofill or autoclick; the context is not closed before, it is then closed,
\* and it is closed once.
C26_ClosedExactlyOnce ==
    /\ [](/\ rContext.closes <= 1
          /\ rPc \in {"loop", "autofill", "autoclick", "finally"} => rContext.closes = 0
          /\ rPc = "done" => (rContext.closes = 1 /\ ~rContext.open))
    /\ [][(rPc \in {"loop", "autofill", "autoclick"} /\ rPc' # rPc) =>
             rPc' \in {"loop", "autofill", "autoclick", "finally"}]_vars
    /\ (rPc = "finally") ~> (rPc = "done")

\* C26 witness: a click of autoclick raised, and the command ended with the
\* context closed once.
C26_Witness ==
    /\ rPc = "done" /\ rRaised
    /\ rTrace = FullRound
    /\ rContext.closes = 1 /\ ~rContext.open

====
